---------------------------- MODULE Spec2Model ----------------------------
(***************************************************************************)
(* A model of the Logger_One toolkit: the fallback delivery path           *)
(* (BufferManager, FallbackHandler, SafeLogger), the notification          *)
(* dispatcher with its retry wrapper, the logging context store with its   *)
(* LoggingContext scopes, and structured logging through a json handler.   *)
(*                                                                         *)
(* The module holds one state machine per subsystem; each has its own      *)
(* specification (BufSpec, SafeSpec, SafeFairSpec, ...) and leaves the     *)
(* variables of the other subsystems unchanged.                            *)
(***************************************************************************)
EXTENDS Integers, Sequences, FiniteSets, TLC

VARIABLES
    \* ---- fallback/buffer_manager.py : BufferManager
    buffer,       \* self.buffer, the list of buffered messages
    capacity,     \* self.capacity
    added,        \* history: the messages passed to add since the last flush
    lastFlush,    \* history: what the last flush saw and did
    bufOp,        \* history: the last BufferManager operation called directly
    bufLock,      \* self.lock: "free" or the thread that holds it
    bufThr,       \* thread -> the add or flush call it is in or made last:
                  \* its position, the message it adds and whether a flush
                  \* was under way when add was called, the snapshot it
                  \* flushes and the messages its callback was called on
    \* ---- fallback/fallback_handler.py : FallbackHandler
    queue,        \* self.queue, records waiting for the worker
    stopEvent,    \* self._stop_event
    workerPc,     \* position of the _worker thread
    workerMsg,    \* the record the worker dequeued and has not written yet
    stopPc,       \* position of a caller inside stop()
    stopMsg,      \* the record stop() dequeued and has not written yet
    sink,         \* what _write has put on stdout / the backup file, in order
    errStream,    \* what the worker reported on sys.stderr
    mode,         \* self.mode
    backupFile,   \* self.backup_file, a path as the sequence of its components
    dirs,         \* the directories that exist, each the path to it
    nStop,        \* number of stop() calls made
    atStop,       \* history: the value of nextMsg when stop() was last called
    \* ---- fallback/safe_logger.py : SafeLogger
    primary,      \* what the wrapped main_logger accepted, in order
    nextMsg,      \* the next message the application will log
    failed,       \* history: messages whose primary log call raised
    lastCall,     \* history: the last SafeLogger call and how it ended
    nRecover,     \* number of recover() calls made
    \* ---- notifications/dispatcher.py : NotificationDispatcher
    channels,     \* self.channels, level -> list of registered channels
    dispatch,     \* the dispatch call under way or last made: the wrapper's
                  \* position and attempt, with the history of its attempts
                  \*   (targets: the channels the last attempt resolved;
                  \*    sent[a][i]: what the i-th send of attempt a returned)
    \* ---- context.py : the context store and LoggingContext
    thread,       \* task -> the thread it runs on ("unborn" before it starts)
    ctxv,         \* task -> the values of the four ContextVars in its Context
    tlocal,       \* thread -> the attributes of _thread_local on that thread
    scopes,       \* task -> the stack of LoggingContext objects it has entered
    nextGen,      \* how many ids generate_correlation_id has produced, plus 1
    genBy,        \* history: generated id -> the thread it was generated on
    lastOp,       \* history: the last context operation and the task that ran it
    \* ---- helpers.py : StructuredLogger; logging-config.py : the json handlers
    logPc,        \* thread -> its position inside a StructuredLogger.info call
    logRec,       \* thread -> the LogRecord of the call it is in
    handlerLock,  \* the lock of the handler: "free" or the thread holding it
    logFile,      \* what has been written to the handler's stream, in order
    infoCalls,    \* history: the info calls made, in the order they were made
    \* ---- context.py : the dict objects behind the extra fields
    heap,         \* dict object -> its items, for every dict that is reachable
    ctxRef,       \* task -> the dict its _extra_fields_ctx refers to
    tlRef,        \* the dict _thread_local.extra_fields refers to, or NoObj
    held,         \* the dicts handed out: returned by get_extra_fields or
                  \* kept by an open scope, each with its items when handed out
    \* ---- middleware.py : the HTTP logging middlewares
    http          \* task -> the request the middleware handles on it: the
                  \* middleware's position, the request's headers, the id it
                  \* extracted, the id the context held once it was set, and
                  \* the headers of the response

bufVars  == <<buffer, capacity, added, lastFlush, bufOp>>
handlerVars == <<queue, stopEvent, workerPc, workerMsg, stopPc, stopMsg, sink, errStream, nStop, atStop>>
safeVars == <<primary, nextMsg, failed, lastCall, nRecover>>

dispVars == <<channels, dispatch>>

ctxVars == <<thread, ctxv, tlocal, scopes, nextGen, genBy, lastOp>>

logVars == <<logPc, logRec, handlerLock, logFile, infoCalls>>

heapVars == <<heap, ctxRef, tlRef, held>>

httpVars == <<http>>

fileVars == <<mode, backupFile, dirs>>

lockVars == <<bufLock, bufThr>>

vars == <<bufVars, handlerVars, safeVars, dispVars, ctxVars, logVars, heapVars, httpVars, fileVars, lockVars>>

NoMsg == <<>>

(***************************************************************************)
(* Bounds of the model.                                                    *)
(***************************************************************************)
MaxCapacity == 3      \* BufSpec: capacities 0..MaxCapacity
MaxAdds     == 5      \* BufSpec: adds between two flushes
MaxLogs     == 3      \* SafeSpec: SafeLogger.log calls
MaxRecovers == 1      \* SafeSpec: SafeLogger.recover calls
MaxStops    == 1      \* SafeSpec: FallbackHandler.stop calls
MaxChannels == 2      \* DispatchSpec: channels registered for one level
MaxGen      == 2      \* context specifications: generated correlation ids
MaxDepth    == 2      \* context specifications: nesting of LoggingContext scopes
MaxInfoCalls == 3     \* LogSpec: StructuredLogger.info calls
MaxHeld     == 2      \* HeapSpec: dicts handed out and still referred to
MaxRecords  == 2      \* RecordSpec: logging calls

Msgs == {"m1", "m2"}  \* BufSpec: the messages handed to add
LogLevels == {"ERROR", "DEBUG"}  \* SafeSpec: the levels handed to log

DefaultCapacity == 500

Min(a, b) == IF a < b THEN a ELSE b

\* The last n elements of s.
LastN(s, n) == SubSeq(s, Len(s) - n + 1, Len(s))

InSeq(x, s) == \E i \in 1..Len(s) : s[i] = x

(***************************************************************************)
(* BufferManager                                                           *)
(***************************************************************************)

\* add with the eviction test off by one: evicts as soon as the buffer is full.
BufferAddEvictEarly(buf, cap, message) ==
    LET b == Append(buf, message)
    IN  IF Len(b) >= cap /\ Len(b) > 0 THEN Tail(b) ELSE b

\* add: append, then drop index 0 when the size exceeds the capacity.
BufferAdd(buf, cap, message) ==
    LET b == Append(buf, message)
    IN  IF Len(b) > cap THEN Tail(b) ELSE b

\* A loop of flush that goes on to the next message when the callback raises.
RECURSIVE FlushLoopContinue(_, _, _, _)
FlushLoopContinue(snapshot, ok, i, calls) ==
    IF i > Len(snapshot) THEN calls
    ELSE FlushLoopContinue(snapshot, ok, i + 1, Append(calls, snapshot[i]))

\* The loop of flush over the snapshot list(self.buffer): the callback is
\* called on snapshot[i]; ok[i] says whether that call returns normally.
\* The first call that raises ends the loop.  The result is the sequence of
\* messages the callback was called on.
RECURSIVE FlushLoop(_, _, _, _)
FlushLoop(snapshot, ok, i, calls) ==
    IF i > Len(snapshot) THEN calls
    ELSE IF ok[i] THEN FlushLoop(snapshot, ok, i + 1, Append(calls, snapshot[i]))
         ELSE Append(calls, snapshot[i])

\* flush that walks the snapshot from the newest message to the oldest.
BufferFlushReversed(buf, ok) ==
    [calls  |-> FlushLoop([i \in 1..Len(buf) |-> buf[Len(buf) + 1 - i]], ok, 1, <<>>),
     buffer |-> <<>>, propagated |-> FALSE]

\* flush: run the loop, then clear the buffer whatever happened.  The raise
\* of a callback is caught inside the loop, so none leaves flush.
BufferFlush(buf, ok) ==
    [calls  |-> FlushLoop(buf, ok, 1, <<>>),
     buffer |-> <<>>, propagated |-> FALSE]

\* The messages of a flush that the callback accepted.
Accepted(calls, ok) == SelectSeq([i \in 1..Len(calls) |-> <<calls[i], ok[i]>>],
                                 LAMBDA p : p[2])

NoFlush == [happened |-> FALSE, before |-> <<>>, ok |-> <<>>, calls |-> <<>>,
            propagated |-> FALSE]

\* No thread is inside add or flush.
NoBufCall == [pc |-> "idle", msg |-> NoMsg, overlapped |-> FALSE,
              snapshot |-> <<>>, calls |-> <<>>]

\* The threads that call add (p1, p2) and the thread that calls flush (f1).
Producers == {"p1", "p2"}
Flushers == {"f1"}
BufThreads == Producers \cup Flushers

LockInit ==
    /\ bufLock = "free"
    /\ bufThr = [t \in BufThreads |-> NoBufCall]

\* A lock that every thread may take at any time.
BufLockIgnored(lock) == TRUE

\* "with self.lock" is entered when no thread holds the lock.
BufLockFree(lock) == lock = "free"

\* A flush is between taking the lock and releasing it.
Flushing == \E f \in Flushers : bufThr[f].pc \in {"flush", "clear"}

lockOthersUnchanged ==
    UNCHANGED <<capacity, lastFlush, bufOp, handlerVars, safeVars, dispVars,
                ctxVars, logVars, heapVars, httpVars, fileVars>>

\* Thread t calls add(message) with the next message: it is about to enter
\* "with self.lock".
add_call(t) ==
    /\ bufThr[t].pc = "idle"
    /\ Len(added) < MaxAdds
    /\ added' = Append(added, Len(added) + 1)
    /\ bufThr' = [bufThr EXCEPT ![t] = [NoBufCall EXCEPT !.pc = "wait",
                                                         !.msg = Len(added) + 1,
                                                         !.overlapped = Flushing]]
    /\ UNCHANGED <<buffer, bufLock>>
    /\ lockOthersUnchanged

\* add: the lock is taken.
add_acquire(t) ==
    /\ bufThr[t].pc = "wait"
    /\ BufLockFree(bufLock)
    /\ bufLock' = t
    /\ bufThr' = [bufThr EXCEPT ![t].pc = "add"]
    /\ UNCHANGED <<buffer, added>>
    /\ lockOthersUnchanged

\* add: the body of the with block, and the release of the lock.
add_body(t) ==
    /\ bufThr[t].pc = "add"
    /\ buffer' = BufferAdd(buffer, capacity, bufThr[t].msg)
    /\ bufLock' = "free"
    /\ bufThr' = [bufThr EXCEPT ![t].pc = "idle"]
    /\ UNCHANGED added
    /\ lockOthersUnchanged

\* Thread t calls flush(target_callback): the lock is taken.
flush_acquire(t) ==
    /\ bufThr[t].pc = "idle"
    /\ BufLockFree(bufLock)
    /\ bufLock' = t
    /\ bufThr' = [bufThr EXCEPT ![t] = [NoBufCall EXCEPT !.pc = "flush"]]
    /\ UNCHANGED <<buffer, added>>
    /\ lockOthersUnchanged

\* flush: the loop over list(self.buffer) with a callback that behaves as ok
\* says.
flush_loop(t, ok) ==
    /\ bufThr[t].pc = "flush"
    /\ bufThr' = [bufThr EXCEPT ![t].pc = "clear",
                                ![t].snapshot = buffer,
                                ![t].calls = FlushLoop(buffer, ok, 1, <<>>)]
    /\ UNCHANGED <<buffer, added, bufLock>>
    /\ lockOthersUnchanged

\* flush: self.buffer.clear(), and the release of the lock.
flush_clear(t) ==
    /\ bufThr[t].pc = "clear"
    /\ buffer' = <<>>
    /\ bufLock' = "free"
    /\ bufThr' = [bufThr EXCEPT ![t].pc = "idle"]
    /\ UNCHANGED added
    /\ lockOthersUnchanged

BufInit ==
    /\ buffer = <<>>
    /\ added = <<>>
    /\ lastFlush = NoFlush
    /\ bufOp = "none"

\* BufferManager.add(message), called directly.
Add(message) ==
    /\ Len(added) < MaxAdds
    /\ buffer' = BufferAdd(buffer, capacity, message)
    /\ added' = Append(added, message)
    /\ bufOp' = "add"
    /\ UNCHANGED <<capacity, lastFlush, handlerVars, safeVars, dispVars, ctxVars, logVars, heapVars, httpVars, fileVars, lockVars>>

\* BufferManager.flush(target_callback), called directly with a callback that
\* behaves as ok says.
Flush(ok) ==
    LET r == BufferFlush(buffer, ok)
    IN  /\ buffer' = r.buffer
        /\ lastFlush' = [happened |-> TRUE, before |-> buffer, ok |-> ok,
                         calls |-> r.calls, propagated |-> r.propagated]
        /\ added' = <<>>
        /\ bufOp' = "flush"
        /\ UNCHANGED <<capacity, handlerVars, safeVars, dispVars, ctxVars, logVars, heapVars, httpVars, fileVars, lockVars>>

(***************************************************************************)
(* FallbackHandler                                                         *)
(***************************************************************************)

\* emit: the record is prefixed with a timestamp and put on the queue.
Timestamped(record) == <<"[timestamp]", record>>

Emit(q, record) == Append(q, Timestamped(record))

\* os.path.dirname(path): '' (the empty sequence) for a bare file name.
Dirname(path) == SubSeq(path, 1, Len(path) - 1)

\* os.makedirs(name, exist_ok=True) for a non-empty name: the directory and
\* its missing parents exist afterwards.
MakeDirs(ds, name) == ds \cup {SubSeq(name, 1, i) : i \in 1..Len(name)}

\* A _write that makes no directory: open() fails when the parent directory
\* of the file is missing.
WriteRaisesNoMakedirs(md, path, ds, ioOk) ==
    \/ ~ioOk
    \/ md # "stdout" /\ Dirname(path) # <<>> /\ Dirname(path) \notin ds

\* Whether _write(msg) raises: print or the file system fails (~ioOk), or, in
\* backup-file mode, os.makedirs is handed '' and raises FileNotFoundError.
WriteRaises(md, path, ds, ioOk) ==
    \/ ~ioOk
    \/ md # "stdout" /\ Dirname(path) = <<>>

\* The directories that exist after _write(msg).
WriteDirs(md, path, ds, ioOk) ==
    IF md = "stdout" \/ WriteRaises(md, path, ds, ioOk) THEN ds
    ELSE MakeDirs(ds, Dirname(path))

DefaultBackupFile == <<"fallback.log">>

\* The state of a handler once __init__ has started the worker thread.
HandlerStarted ==
    /\ queue = <<>>
    /\ stopEvent = FALSE
    /\ workerPc = "loop"
    /\ workerMsg = NoMsg
    /\ stopPc = "idle"
    /\ stopMsg = NoMsg
    /\ sink = <<>>
    /\ errStream = <<>>
    /\ nStop = 0
    /\ atStop = 0

\* FallbackHandler(): mode="stdout", backup_file="fallback.log".
HandlerInit ==
    /\ HandlerStarted
    /\ mode = "stdout"
    /\ backupFile = DefaultBackupFile
    /\ dirs = {}

\* A get that returns the first record and leaves it on the queue.
QueuePeek(q) == [item |-> Head(q), queue |-> q]

\* Queue.get on a queue that is not empty: the first record is removed from
\* the queue and returned.
QueueGet(q) == [item |-> Head(q), queue |-> Tail(q)]

\* _worker: the test of the while loop.
WorkerLoop ==
    /\ workerPc = "loop"
    /\ workerPc' = IF stopEvent THEN "exited" ELSE "get"
    /\ UNCHANGED <<queue, stopEvent, workerMsg, stopPc, stopMsg, sink, errStream, nStop, atStop, bufVars, safeVars, dispVars, ctxVars, logVars, heapVars, httpVars, fileVars, lockVars>>

\* _worker: queue.get(timeout=flush_interval) returns a record.
WorkerGet ==
    /\ workerPc = "get"
    /\ queue # <<>>
    /\ workerMsg' = QueueGet(queue).item
    /\ queue' = QueueGet(queue).queue
    /\ workerPc' = "write"
    /\ UNCHANGED <<stopEvent, stopPc, stopMsg, sink, errStream, nStop, atStop, bufVars, safeVars, dispVars, ctxVars, logVars, heapVars, httpVars, fileVars, lockVars>>

\* _worker: queue.get times out on an empty queue (Empty), the loop goes on.
WorkerTimeout ==
    /\ workerPc = "get"
    /\ queue = <<>>
    /\ workerPc' = "loop"
    /\ UNCHANGED <<queue, stopEvent, workerMsg, stopPc, stopMsg, sink, errStream, nStop, atStop, bufVars, safeVars, dispVars, ctxVars, logVars, heapVars, httpVars, fileVars, lockVars>>

\* A worker without "except Exception": a write that raises ends the thread.
WorkerWroteUncaught(ok, msg, snk, err) ==
    IF ok THEN [sink |-> Append(snk, msg), errStream |-> err, pc |-> "loop"]
    ELSE [sink |-> snk, errStream |-> err, pc |-> "exited"]

\* _worker, the body of the try: _write(message) appends the record to the
\* sink; a write that raises is caught by "except Exception", reported on
\* stderr, and the loop goes on.
WorkerWrote(ok, msg, snk, err) ==
    IF ok THEN [sink |-> Append(snk, msg), errStream |-> err, pc |-> "loop"]
    ELSE [sink |-> snk, errStream |-> Append(err, msg), pc |-> "loop"]

\* _worker: _write(message) returns or raises.
WorkerWrite(ok) ==
    /\ workerPc = "write"
    /\ LET r == WorkerWrote(~WriteRaises(mode, backupFile, dirs, ok), workerMsg,
                            sink, errStream)
       IN  /\ sink' = r.sink
           /\ errStream' = r.errStream
           /\ workerPc' = r.pc
    /\ dirs' = WriteDirs(mode, backupFile, dirs, ok)
    /\ workerMsg' = NoMsg
    /\ UNCHANGED <<queue, stopEvent, stopPc, stopMsg, nStop, atStop, mode, backupFile, bufVars, safeVars, dispVars, ctxVars, logVars, heapVars, httpVars, lockVars>>

Worker == WorkerLoop \/ WorkerGet \/ WorkerTimeout \/ \E ok \in BOOLEAN : WorkerWrite(ok)

\* stop(): self._stop_event.set().  The history atStop is kept when marked.
StopCall(marked) ==
    /\ stopPc \in {"idle", "returned", "raised"}
    /\ nStop < MaxStops
    /\ nStop' = nStop + 1
    /\ stopEvent' = TRUE
    /\ atStop' = IF marked THEN nextMsg ELSE atStop
    /\ stopPc' = "join"
    /\ UNCHANGED <<queue, workerPc, workerMsg, stopMsg, sink, errStream, bufVars, safeVars, dispVars, ctxVars, logVars, heapVars, httpVars, fileVars, lockVars>>

\* stop(): self._thread.join(timeout=2) returns, the worker having exited or
\* the timeout having passed.
StopJoin ==
    /\ stopPc = "join"
    /\ stopPc' = "check"
    /\ UNCHANGED <<queue, stopEvent, workerPc, workerMsg, stopMsg, sink, errStream, nStop, atStop, bufVars, safeVars, dispVars, ctxVars, logVars, heapVars, httpVars, fileVars, lockVars>>

\* stop(): the test "while not self.queue.empty()".
StopCheck ==
    /\ stopPc = "check"
    /\ stopPc' = IF queue = <<>> THEN "returned" ELSE "get"
    /\ UNCHANGED <<queue, stopEvent, workerPc, workerMsg, stopMsg, sink, errStream, nStop, atStop, bufVars, safeVars, dispVars, ctxVars, logVars, heapVars, httpVars, fileVars, lockVars>>

\* stop(): self.queue.get(), which waits for a record.
StopGet ==
    /\ stopPc = "get"
    /\ queue # <<>>
    /\ stopMsg' = QueueGet(queue).item
    /\ queue' = QueueGet(queue).queue
    /\ stopPc' = "write"
    /\ UNCHANGED <<stopEvent, workerPc, workerMsg, sink, errStream, nStop, atStop, bufVars, safeVars, dispVars, ctxVars, logVars, heapVars, httpVars, fileVars, lockVars>>

\* stop(): self._write(record); nothing in stop() catches a write that raises.
StopWrite(ok) ==
    /\ stopPc = "write"
    /\ IF ~WriteRaises(mode, backupFile, dirs, ok)
       THEN sink' = Append(sink, stopMsg) /\ stopPc' = "check"
       ELSE UNCHANGED sink /\ stopPc' = "raised"
    /\ dirs' = WriteDirs(mode, backupFile, dirs, ok)
    /\ stopMsg' = NoMsg
    /\ UNCHANGED <<queue, stopEvent, workerPc, workerMsg, errStream, nStop, atStop, mode, backupFile, bufVars, safeVars, dispVars, ctxVars, logVars, heapVars, httpVars, lockVars>>

\* The steps of a stop() call that is under way.
StopRun == StopJoin \/ StopCheck \/ StopGet \/ \E ok \in BOOLEAN : StopWrite(ok)


(***************************************************************************)
(* SafeLogger                                                              *)
(***************************************************************************)

\* What SafeLogger.log hands to the fallback handler for message m.
ErrorRecord(m) == <<"MAIN LOGGER ERROR", m>>

\* What recover hands to the fallback handler when the flush is over.
RecoveryComplete == <<"Recovery complete", 0>>

\* What recover hands to the fallback handler when the flush raised.
RecoveryFailed == <<"Recovery failed", 0>>

\* log whose except branch only reports to the fallback handler.
SafeLoggerLogEmitOnly(level, msg, primaryOk) ==
    IF primaryOk
    THEN [primary |-> Append(primary, <<level, msg>>), buffer |-> buffer,
          queue |-> queue, propagated |-> FALSE]
    ELSE [primary |-> primary, buffer |-> buffer,
          queue |-> Emit(queue, ErrorRecord(msg)), propagated |-> FALSE]

\* log: main_logger.log(level, msg); when that raises an Exception the
\* message is added to the buffer and reported to the fallback handler, and
\* nothing is raised to the caller.
SafeLoggerLog(level, msg, primaryOk) ==
    IF primaryOk
    THEN [primary |-> Append(primary, <<level, msg>>), buffer |-> buffer,
          queue |-> queue, propagated |-> FALSE]
    ELSE [primary |-> primary, buffer |-> BufferAdd(buffer, capacity, msg),
          queue |-> Emit(queue, ErrorRecord(msg)), propagated |-> FALSE]

\* recover: flush the buffer into main_logger.log("INFO", m), then emit the
\* completion marker, or the failure marker when flush raised.  ok[i] says whether the primary logger accepts the
\* i-th buffered message.
SafeLoggerRecover(ok) ==
    LET r == BufferFlush(buffer, ok)
        accepted == Accepted(r.calls, ok)
    IN  [primary |-> primary \o [i \in 1..Len(accepted) |-> <<"INFO", accepted[i][1]>>],
         buffer  |-> r.buffer,
         calls   |-> r.calls,
         queue   |-> Emit(queue, IF r.propagated THEN RecoveryFailed
                                 ELSE RecoveryComplete)]

NoCall == [op |-> "none", msg |-> 0, primaryRaised |-> FALSE, propagated |-> FALSE]

SafeInit ==
    /\ primary = <<>>
    /\ nextMsg = 1
    /\ failed = {}
    /\ lastCall = NoCall
    /\ nRecover = 0

\* The application calls SafeLogger.log(level, nextMsg).
Log(level, primaryOk) ==
    LET r == SafeLoggerLog(level, nextMsg, primaryOk)
    IN  /\ nextMsg <= MaxLogs
        /\ primary' = r.primary
        /\ buffer' = r.buffer
        /\ queue' = r.queue
        /\ nextMsg' = nextMsg + 1
        /\ failed' = IF primaryOk THEN failed ELSE failed \cup {nextMsg}
        /\ lastCall' = [op |-> "log", msg |-> nextMsg,
                        primaryRaised |-> ~primaryOk, propagated |-> r.propagated]
        /\ UNCHANGED <<capacity, added, lastFlush, bufOp, nRecover>>
        /\ UNCHANGED <<stopEvent, workerPc, workerMsg, stopPc, stopMsg, sink, errStream, nStop, atStop>>
        /\ UNCHANGED <<dispVars, ctxVars, logVars, heapVars, httpVars, fileVars, lockVars>>

\* The application calls SafeLogger.recover().
Recover(ok) ==
    LET r == SafeLoggerRecover(ok)
    IN  /\ nRecover < MaxRecovers
        /\ nRecover' = nRecover + 1
        /\ primary' = r.primary
        /\ buffer' = r.buffer
        /\ queue' = r.queue
        /\ lastCall' = [op |-> "recover", msg |-> 0,
                        primaryRaised |-> (\E i \in 1..Len(ok) : ~ok[i]),
                        propagated |-> FALSE]
        /\ UNCHANGED <<capacity, added, lastFlush, bufOp, nextMsg, failed>>
        /\ UNCHANGED <<stopEvent, workerPc, workerMsg, stopPc, stopMsg, sink, errStream, nStop, atStop>>
        /\ UNCHANGED <<dispVars, ctxVars, logVars, heapVars, httpVars, fileVars, lockVars>>

\* A thread calls FallbackHandler.emit with the record of message nextMsg.
FallbackEmit ==
    /\ nextMsg <= MaxLogs
    /\ queue' = Emit(queue, ErrorRecord(nextMsg))
    /\ nextMsg' = nextMsg + 1
    /\ UNCHANGED <<primary, failed, lastCall, nRecover>>
    /\ UNCHANGED <<stopEvent, workerPc, workerMsg, stopPc, stopMsg, sink, errStream, nStop, atStop>>
    /\ UNCHANGED <<bufVars, dispVars, ctxVars, logVars, heapVars, httpVars, fileVars, lockVars>>

\* The fallback record of message m is on the fallback sink.
Written(m) == InSeq(Timestamped(ErrorRecord(m)), sink)

\* Message m was accepted by the primary logger during a recover.
Delivered(m) == InSeq(<<"INFO", m>>, primary)

(***************************************************************************)
(* NotificationDispatcher and the with_retry wrapper                       *)
(***************************************************************************)

Retries == 3          \* @with_retry(retries=3, ...)
Delay   == 3          \* @with_retry(..., delay=3)

Channels == {"c1", "c2"}                 \* the channel objects
RegisterLevels == {"INFO", "DEBUG"}      \* levels handed to register_channel
MessageLevels == {"INFO", "DEBUG", "ERROR"}  \* levels of dispatched messages

\* self.channels.get(level, [])
ChannelsGet(chs, level) == IF level \in DOMAIN chs THEN chs[level] ELSE <<>>

\* register_channel: create the list of an unknown level, then append.
RegisterChannel(chs, level, channel) ==
    [l \in DOMAIN chs \cup {level} |->
        IF l = level THEN Append(ChannelsGet(chs, level), channel) ELSE chs[l]]

\* The loop of dispatch over targets: send is called on every channel, sent[i]
\* is what the i-th call returns, success is the conjunction.
RECURSIVE SendAll(_, _, _, _)
SendAll(targets, sent, i, success) ==
    IF i > Len(targets) THEN success
    ELSE SendAll(targets, sent, i + 1, success /\ sent[i])

\* The channels up to and including the first one whose send returns false.
RECURSIVE UntilFirstFailure(_, _, _)
UntilFirstFailure(targets, sent, i) ==
    IF i > Len(targets) THEN targets
    ELSE IF sent[i] THEN UntilFirstFailure(targets, sent, i + 1)
         ELSE SubSeq(targets, 1, i)

\* A body of dispatch that stops at the first channel whose send fails.
DispatchBodyShortCircuit(targets, sent) ==
    IF targets = <<>>
    THEN [success |-> FALSE, calls |-> <<>>]
    ELSE [success |-> SendAll(targets, sent, 1, TRUE),
          calls |-> UntilFirstFailure(targets, sent, 1)]

\* The channels of a list, each once, in the order of their first entry.
RECURSIVE Dedup(_, _)
Dedup(s, acc) ==
    IF s = <<>> THEN acc
    ELSE Dedup(Tail(s), IF InSeq(Head(s), acc) THEN acc ELSE Append(acc, Head(s)))

\* A body of dispatch that sends once to a channel registered several times.
DispatchBodyDistinct(targets, sent) ==
    IF targets = <<>>
    THEN [success |-> FALSE, calls |-> <<>>]
    ELSE [success |-> SendAll(targets, sent, 1, TRUE),
          calls |-> Dedup(targets, <<>>)]

\* The body of dispatch: one attempt.  Returns whether it succeeded and the
\* channels send was called on.
DispatchBody(targets, sent) ==
    IF targets = <<>>
    THEN [success |-> FALSE, calls |-> <<>>]
    ELSE [success |-> SendAll(targets, sent, 1, TRUE), calls |-> targets]

\* with_retry.wrapper after an attempt: return True when it succeeded, else
\* log the retry and sleep.
AfterAttempt(success) == IF success THEN "returned" ELSE "sleep"

\* The wrapper that goes straight to the next attempt after a failed one.
AfterSleepNoDelay(events) == events

\* with_retry.wrapper: time.sleep(delay) after a failed attempt.
AfterSleep(events) == Append(events, <<"sleep", Delay>>)

\* A loop that makes one attempt more than retries.
LoopNextOneMore(attempt) == IF attempt <= Retries THEN "attempt" ELSE "returned"

\* with_retry.wrapper: the for loop over range(1, retries + 1) after attempt
\* number attempt; when it is exhausted the wrapper returns False.
LoopNext(attempt) == IF attempt + 1 <= Retries THEN "attempt" ELSE "returned"

NoDispatch == [pc |-> "idle", level |-> "", attempt |-> 0, targets |-> <<>>,
               sent |-> <<>>,
               result |-> FALSE, events |-> <<>>, calls |-> <<>>]

DispatchInit ==
    /\ channels = [l \in {"INFO", "WARN", "ALERT", "ERROR"} |-> <<>>]
    /\ dispatch = NoDispatch

\* register_channel(level, channel), called while no dispatch is under way.
Register(level, channel) ==
    /\ dispatch.pc \in {"idle", "returned"}
    /\ Len(ChannelsGet(channels, level)) < MaxChannels
    /\ channels' = RegisterChannel(channels, level, channel)
    /\ UNCHANGED <<dispatch, bufVars, handlerVars, safeVars, ctxVars, logVars, heapVars, httpVars, fileVars, lockVars>>

\* A caller enters dispatch(message) with a message of the given level: the
\* wrapper starts its loop at attempt 1.
DispatchCall(level) ==
    /\ dispatch.pc \in {"idle", "returned"}
    /\ dispatch' = [NoDispatch EXCEPT !.pc = "attempt", !.level = level, !.attempt = 1]
    /\ UNCHANGED <<channels, bufVars, handlerVars, safeVars, ctxVars, logVars, heapVars, httpVars, fileVars, lockVars>>

\* One attempt: the body of dispatch runs, the i-th channel's send returning
\* sent[i]; the wrapper returns True or goes to sleep.
DispatchAttempt(sent) ==
    LET targets == ChannelsGet(channels, dispatch.level)
        r == DispatchBody(targets, sent)
    IN  /\ dispatch.pc = "attempt"
        /\ dispatch' = [dispatch EXCEPT
                !.pc = AfterAttempt(r.success),
                !.result = r.success,
                !.targets = targets,
                !.sent = Append(@, sent),
                !.events = Append(@, <<"attempt", dispatch.attempt>>),
                !.calls = @ \o [i \in 1..Len(r.calls) |-> <<dispatch.attempt, r.calls[i]>>]]
        /\ UNCHANGED <<channels, bufVars, handlerVars, safeVars, ctxVars, logVars, heapVars, httpVars, fileVars, lockVars>>

\* The sleep after a failed attempt ends: next attempt, or return False when
\* the attempts are exhausted.
DispatchSleep ==
    /\ dispatch.pc = "sleep"
    /\ dispatch' = [dispatch EXCEPT
            !.pc = LoopNext(dispatch.attempt),
            !.attempt = IF LoopNext(dispatch.attempt) = "attempt" THEN @ + 1 ELSE @,
            !.result = FALSE,
            !.events = AfterSleep(@)]
    /\ UNCHANGED <<channels, bufVars, handlerVars, safeVars, ctxVars, logVars, heapVars, httpVars, fileVars, lockVars>>

(***************************************************************************)
(* The context store (context.py)                                          *)
(*                                                                         *)
(* Every task (a thread's own code, or an asyncio task running on a        *)
(* thread) has its own Context holding the four ContextVars; all tasks of  *)
(* a thread share that thread's _thread_local.  A store S is the pair the  *)
(* running code sees: S.c its Context, S.l its thread's _thread_local.     *)
(***************************************************************************)

None == "None"        \* Python's None; also an attribute _thread_local lacks
EmptyMap == [k \in {} |-> None]      \* the dict {}

\* The ids generate_correlation_id returns, in the order it returns them.
GenPool == <<"g1", "g2", "g3", "g4", "g5", "g6">>
GenId(n) == GenPool[n]

\* Python's truth value of an Optional[str]: None and "" are false.
Truthy(v) == v # None /\ v # ""

\* d[key] = value on a dict.
MapSet(d, key, value) ==
    [k \in DOMAIN d \cup {key} |-> IF k = key THEN value ELSE d[k]]

DefaultContext == [correlation_id |-> None, transaction_id |-> None,
                   user_id |-> None, extra_fields |-> EmptyMap]

\* set_transaction_id / set_user_id, and the two assignments that end
\* set_correlation_id: the value goes to the ContextVar and to _thread_local.
SetId(S, slot, value) ==
    [c |-> [S.c EXCEPT ![slot] = value], l |-> [S.l EXCEPT ![slot] = value]]

\* set_correlation_id(correlation_id): None asks for a generated id (fresh).
SetCorrelationId(S, correlation_id, fresh) ==
    SetId(S, "correlation_id", IF correlation_id = None THEN fresh ELSE correlation_id)

\* get_correlation_id / get_transaction_id / get_user_id: the ContextVar when
\* its value is true, else the attribute of _thread_local (None when absent).
GetId(S, slot) == IF Truthy(S.c[slot]) THEN S.c[slot] ELSE S.l[slot]

\* A clear_* that resets the ContextVar and leaves _thread_local alone.
ClearIdTaskOnly(S, slot) == [c |-> [S.c EXCEPT ![slot] = None], l |-> S.l]

\* clear_correlation_id / clear_transaction_id / clear_user_id: the ContextVar
\* is set to None and the attribute of _thread_local is deleted.
ClearId(S, slot) ==
    [c |-> [S.c EXCEPT ![slot] = None], l |-> [S.l EXCEPT ![slot] = None]]

\* delattr raises AttributeError when the object has no such attribute.
DelAttrRaises(l, slot) == l[slot] = None

\* clear_*: "if hasattr(_thread_local, slot): delattr(_thread_local, slot)";
\* setting the ContextVar never raises.
ClearRaises(S, slot) ==
    IF S.l[slot] # None THEN DelAttrRaises(S.l, slot) ELSE FALSE

\* set_extra_field: a copy of the ContextVar's dict with the key set replaces
\* it; the key is set in the dict of _thread_local (created when absent).
SetExtraField(S, key, value) ==
    [c |-> [S.c EXCEPT !.extra_fields = MapSet(@, key, value)],
     l |-> [S.l EXCEPT !.extra_fields = MapSet(@, key, value)]]

\* get_extra_fields: a copy of the ContextVar's dict when it is not empty,
\* else a copy of the dict of _thread_local ({} when absent).
GetExtraFields(S) ==
    IF S.c.extra_fields # EmptyMap THEN S.c.extra_fields ELSE S.l.extra_fields

\* clear_extra_fields: both dicts become {}.
ClearExtraFields(S) ==
    [c |-> [S.c EXCEPT !.extra_fields = EmptyMap],
     l |-> [S.l EXCEPT !.extra_fields = EmptyMap]]

\* clear_all_context
ClearAllContext(S) ==
    ClearExtraFields(ClearId(ClearId(ClearId(S, "correlation_id"),
                                     "transaction_id"), "user_id"))

\* The loop "for key, value in fields.items(): set_extra_field(key, value)".
RECURSIVE SetExtraFields(_, _, _)
SetExtraFields(S, fields, keys) ==
    IF keys = {} THEN S
    ELSE LET key == CHOOSE k \in keys : TRUE
         IN  SetExtraFields(SetExtraField(S, key, fields[key]), fields, keys \ {key})

\* get_current_context: what the four getters return.
GetCurrentContext(S) ==
    [correlation_id |-> GetId(S, "correlation_id"),
     transaction_id |-> GetId(S, "transaction_id"),
     user_id        |-> GetId(S, "user_id"),
     extra_fields   |-> GetExtraFields(S)]

(***************************************************************************)
(* LoggingContext.  a is the constructor's arguments: correlation_id,      *)
(* transaction_id, user_id (None when not given), auto_generate_correlation *)
(* and the extra fields.                                                   *)
(***************************************************************************)

\* __enter__ sets a correlation id: one is given, or auto-generation is on.
SetsCorrelation(a) == Truthy(a.correlation_id) \/ a.auto_generate_correlation

\* __enter__ asks generate_correlation_id for an id.
Generates(a) == SetsCorrelation(a) /\ a.correlation_id = None

\* __enter__: the snapshot taken by the four getters.
Snapshot(S) ==
    [prev_correlation_id |-> GetId(S, "correlation_id"),
     prev_transaction_id |-> GetId(S, "transaction_id"),
     prev_user_id        |-> GetId(S, "user_id"),
     prev_extra_fields   |-> GetExtraFields(S)]

\* An __enter__ that sets the transaction id and the user id without testing
\* whether they were given.
EnterStoreUnconditional(S, a, fresh) ==
    LET S1 == IF SetsCorrelation(a)
              THEN SetCorrelationId(S, a.correlation_id, fresh) ELSE S
        S2 == SetId(S1, "transaction_id", a.transaction_id)
        S3 == SetId(S2, "user_id", a.user_id)
    IN  SetExtraFields(S3, a.extra_fields, DOMAIN a.extra_fields)

\* __enter__: the store after the new values are set.
EnterStore(S, a, fresh) ==
    LET S1 == IF SetsCorrelation(a)
              THEN SetCorrelationId(S, a.correlation_id, fresh) ELSE S
        S2 == IF Truthy(a.transaction_id)
              THEN SetId(S1, "transaction_id", a.transaction_id) ELSE S1
        S3 == IF Truthy(a.user_id) THEN SetId(S2, "user_id", a.user_id) ELSE S2
    IN  SetExtraFields(S3, a.extra_fields, DOMAIN a.extra_fields)

\* An __exit__ that sets the snapshot's extra fields without clearing first.
ExitStoreMerging(S, scope) ==
    LET S1 == IF Truthy(scope.prev_correlation_id)
              THEN SetCorrelationId(S, scope.prev_correlation_id, None)
              ELSE ClearId(S, "correlation_id")
        S2 == IF Truthy(scope.prev_transaction_id)
              THEN SetId(S1, "transaction_id", scope.prev_transaction_id)
              ELSE ClearId(S1, "transaction_id")
        S3 == IF Truthy(scope.prev_user_id)
              THEN SetId(S2, "user_id", scope.prev_user_id)
              ELSE ClearId(S2, "user_id")
    IN  SetExtraFields(S3, scope.prev_extra_fields,
                       DOMAIN scope.prev_extra_fields)

\* __exit__: every slot is set back to its snapshot when that is true, and
\* cleared otherwise; the extra fields are cleared and set again one by one.
ExitStore(S, scope) ==
    LET S1 == IF Truthy(scope.prev_correlation_id)
              THEN SetCorrelationId(S, scope.prev_correlation_id, None)
              ELSE ClearId(S, "correlation_id")
        S2 == IF Truthy(scope.prev_transaction_id)
              THEN SetId(S1, "transaction_id", scope.prev_transaction_id)
              ELSE ClearId(S1, "transaction_id")
        S3 == IF Truthy(scope.prev_user_id)
              THEN SetId(S2, "user_id", scope.prev_user_id)
              ELSE ClearId(S2, "user_id")
    IN  SetExtraFields(ClearExtraFields(S3), scope.prev_extra_fields,
                       DOMAIN scope.prev_extra_fields)

(***************************************************************************)
(* The tasks and what they call                                            *)
(***************************************************************************)

TaskOrder == <<"t1", "t2", "t3">>    \* t1 is the main thread's own code
TaskIds == {TaskOrder[i] : i \in 1..Len(TaskOrder)}

Running(t) == thread[t] # "unborn"

\* The task that starts next is the first one not started yet.
StartsNext(c) ==
    \E i \in 1..Len(TaskOrder) :
        /\ TaskOrder[i] = c
        /\ ~Running(c)
        /\ \A j \in 1..(i - 1) : Running(TaskOrder[j])

\* Every thread's _thread_local is one store shared by all threads.
LocalOfShared(t) == "t1"

\* The thread whose _thread_local task t reads and writes: its own.
LocalOf(t) == thread[t]

\* The store task t sees.
Store(t) == [c |-> ctxv[t], l |-> tlocal[LocalOf(t)]]

\* Task t's call leaves the store S behind.
Put(t, S) ==
    /\ ctxv' = [ctxv EXCEPT ![t] = S.c]
    /\ tlocal' = [tlocal EXCEPT ![LocalOf(t)] = S.l]

get_correlation_id(t) == GetId(Store(t), "correlation_id")
get_transaction_id(t) == GetId(Store(t), "transaction_id")
get_user_id(t)        == GetId(Store(t), "user_id")
get_extra_fields(t)   == GetExtraFields(Store(t))

NoScope == Snapshot([c |-> DefaultContext, l |-> DefaultContext])
NoArgs == [correlation_id |-> None, transaction_id |-> None, user_id |-> None,
           auto_generate_correlation |-> FALSE, extra_fields |-> EmptyMap]

\* A slot neither the ContextVar nor _thread_local holds.
Absent(S, slot) ==
    IF slot = "extra_fields"
    THEN S.c.extra_fields = EmptyMap /\ S.l.extra_fields = EmptyMap
    ELSE S.c[slot] = None /\ S.l[slot] = None

AllAbsent(S) ==
    \A slot \in {"correlation_id", "transaction_id", "user_id", "extra_fields"} :
        Absent(S, slot)

\* What lastOp keeps of a call: for entering a scope its arguments, for
\* leaving one its snapshot, whether the block raised and whether the caller
\* of the with statement then sees the exception.
\* For leaving a scope it also keeps the extra fields the block left behind
\* (inside), and for a clear_* call whether the slot was already absent.
Op(name, t) == [op |-> name, task |-> t, scope |-> NoScope, args |-> NoArgs,
                raised |-> FALSE, propagated |-> FALSE,
                inside |-> EmptyMap, absent |-> FALSE]

ContextInit ==
    /\ thread = [t \in TaskIds |-> IF t = "t1" THEN "t1" ELSE "unborn"]
    /\ ctxv = [t \in TaskIds |-> DefaultContext]
    /\ tlocal = [t \in TaskIds |-> DefaultContext]
    /\ scopes = [t \in TaskIds |-> <<>>]
    /\ nextGen = 1
    /\ genBy = [n \in 1..Len(GenPool) |-> "nobody"]
    /\ lastOp = Op("none", "t1")

othersUnchanged == UNCHANGED <<bufVars, handlerVars, safeVars, dispVars, logVars, heapVars, httpVars, fileVars, lockVars>>

\* asyncio.create_task on task p: task c starts on p's thread with a copy of
\* p's Context.
spawn_task(p, c) ==
    /\ Running(p)
    /\ StartsNext(c)
    /\ thread' = [thread EXCEPT ![c] = thread[p]]
    /\ ctxv' = [ctxv EXCEPT ![c] = ctxv[p]]
    /\ lastOp' = Op("spawn_task", c)
    /\ UNCHANGED <<tlocal, scopes, nextGen, genBy>>
    /\ othersUnchanged

\* threading.Thread(...).start(): c is the code of a new thread, with a
\* Context and a _thread_local of its own, both empty.
start_thread(c) ==
    /\ StartsNext(c)
    /\ thread' = [thread EXCEPT ![c] = c]
    /\ lastOp' = Op("start_thread", c)
    /\ UNCHANGED <<ctxv, tlocal, scopes, nextGen, genBy>>
    /\ othersUnchanged

\* Task t calls set_correlation_id(correlation_id).
set_correlation_id(t, correlation_id) ==
    /\ Running(t)
    /\ correlation_id = None => nextGen <= MaxGen
    /\ Put(t, SetCorrelationId(Store(t), correlation_id, GenId(nextGen)))
    /\ nextGen' = IF correlation_id = None THEN nextGen + 1 ELSE nextGen
    /\ genBy' = IF correlation_id = None
                THEN [genBy EXCEPT ![nextGen] = thread[t]] ELSE genBy
    /\ lastOp' = Op("set_correlation_id", t)
    /\ UNCHANGED <<thread, scopes>>
    /\ othersUnchanged

clear_correlation_id(t) ==
    /\ Running(t)
    /\ Put(t, ClearId(Store(t), "correlation_id"))
    /\ lastOp' = [Op("clear_correlation_id", t) EXCEPT
                      !.absent = Absent(Store(t), "correlation_id"),
                      !.raised = ClearRaises(Store(t), "correlation_id")]
    /\ UNCHANGED <<thread, scopes, nextGen, genBy>>
    /\ othersUnchanged

set_transaction_id(t, transaction_id) ==
    /\ Running(t)
    /\ Put(t, SetId(Store(t), "transaction_id", transaction_id))
    /\ lastOp' = Op("set_transaction_id", t)
    /\ UNCHANGED <<thread, scopes, nextGen, genBy>>
    /\ othersUnchanged

clear_transaction_id(t) ==
    /\ Running(t)
    /\ Put(t, ClearId(Store(t), "transaction_id"))
    /\ lastOp' = [Op("clear_transaction_id", t) EXCEPT
                      !.absent = Absent(Store(t), "transaction_id"),
                      !.raised = ClearRaises(Store(t), "transaction_id")]
    /\ UNCHANGED <<thread, scopes, nextGen, genBy>>
    /\ othersUnchanged

set_user_id(t, user_id) ==
    /\ Running(t)
    /\ Put(t, SetId(Store(t), "user_id", user_id))
    /\ lastOp' = Op("set_user_id", t)
    /\ UNCHANGED <<thread, scopes, nextGen, genBy>>
    /\ othersUnchanged

clear_user_id(t) ==
    /\ Running(t)
    /\ Put(t, ClearId(Store(t), "user_id"))
    /\ lastOp' = [Op("clear_user_id", t) EXCEPT
                      !.absent = Absent(Store(t), "user_id"),
                      !.raised = ClearRaises(Store(t), "user_id")]
    /\ UNCHANGED <<thread, scopes, nextGen, genBy>>
    /\ othersUnchanged

set_extra_field(t, key, value) ==
    /\ Running(t)
    /\ Put(t, SetExtraField(Store(t), key, value))
    /\ lastOp' = Op("set_extra_field", t)
    /\ UNCHANGED <<thread, scopes, nextGen, genBy>>
    /\ othersUnchanged

clear_extra_fields(t) ==
    /\ Running(t)
    /\ Put(t, ClearExtraFields(Store(t)))
    /\ lastOp' = [Op("clear_extra_fields", t) EXCEPT
                      !.absent = Absent(Store(t), "extra_fields")]
    /\ UNCHANGED <<thread, scopes, nextGen, genBy>>
    /\ othersUnchanged

clear_all_context(t) ==
    /\ Running(t)
    /\ Put(t, ClearAllContext(Store(t)))
    /\ lastOp' = [Op("clear_all_context", t) EXCEPT
                      !.absent = AllAbsent(Store(t)),
                      !.raised = \E slot \in {"correlation_id", "transaction_id",
                                               "user_id"} :
                                    ClearRaises(Store(t), slot)]
    /\ UNCHANGED <<thread, scopes, nextGen, genBy>>
    /\ othersUnchanged

\* Task t enters "with LoggingContext(**a):".
LoggingContext_enter(t, a) ==
    /\ Running(t)
    /\ Len(scopes[t]) < MaxDepth
    /\ Generates(a) => nextGen <= MaxGen
    /\ scopes' = [scopes EXCEPT ![t] = Append(@, Snapshot(Store(t)))]
    /\ Put(t, EnterStore(Store(t), a, GenId(nextGen)))
    /\ nextGen' = IF Generates(a) THEN nextGen + 1 ELSE nextGen
    /\ genBy' = IF Generates(a) THEN [genBy EXCEPT ![nextGen] = thread[t]] ELSE genBy
    /\ lastOp' = [Op("enter", t) EXCEPT !.scope = Snapshot(Store(t)), !.args = a]
    /\ UNCHANGED thread
    /\ othersUnchanged

\* Task t leaves the innermost with block it is in.
LoggingContext_exit(t) ==
    /\ Running(t)
    /\ scopes[t] # <<>>
    /\ LET scope == scopes[t][Len(scopes[t])]
       IN  /\ Put(t, ExitStore(Store(t), scope))
           /\ lastOp' = [Op("exit", t) EXCEPT !.scope = scope,
                                               !.inside = get_extra_fields(t)]
    /\ scopes' = [scopes EXCEPT ![t] = SubSeq(@, 1, Len(@) - 1)]
    /\ UNCHANGED <<thread, nextGen, genBy>>
    /\ othersUnchanged

\* __exit__ has no return statement: it returns None, which is not true, so
\* the with statement does not suppress the exception of its block.
ExitReturn == FALSE

\* The block of the innermost with LoggingContext of task t raises: the with
\* statement calls __exit__ with the exception, then raises it again unless
\* __exit__ returned a true value.
LoggingContext_exit_raising(t) ==
    /\ Running(t)
    /\ scopes[t] # <<>>
    /\ LET scope == scopes[t][Len(scopes[t])]
       IN  /\ Put(t, ExitStore(Store(t), scope))
           /\ lastOp' = [Op("exit", t) EXCEPT !.scope = scope, !.raised = TRUE,
                                               !.inside = get_extra_fields(t),
                                              !.propagated = ~ExitReturn]
    /\ scopes' = [scopes EXCEPT ![t] = SubSeq(@, 1, Len(@) - 1)]
    /\ UNCHANGED <<thread, nextGen, genBy>>
    /\ othersUnchanged

(***************************************************************************)
(* Structured logging: StructuredLogger (helpers.py) and a handler of      *)
(* LOGGING_CONFIG with its CorrelationFilter and StructuredFormatter       *)
(* (logging-config.py).  A dict, and the attributes of a LogRecord, are a  *)
(* function from keys to values; a key outside its domain is absent.       *)
(***************************************************************************)

\* d.update(e)
DictUpdate(d, e) ==
    [k \in DOMAIN d \cup DOMAIN e |-> IF k \in DOMAIN e THEN e[k] ELSE d[k]]

\* The texts handed to info, one per call.
MsgText == <<"message_1", "message_2", "message_3", "message_4", "message_5">>

LoggerName == "transactions"       \* StructuredLogger('transactions', ...)
Component  == "transactions"       \* StructuredLogger(..., 'transactions')
ServiceName == "fraud-detection-service"
Now == "2024-01-01T00:00:00"       \* datetime.utcnow().isoformat()

\* StructuredLogger._log: the dict passed as extra to logger.log.
LogExtra(S, component, event, correlation_id, transaction_id, extra_fields) ==
    LET fields == IF Truthy(event) THEN MapSet(extra_fields, "event", event)
                  ELSE extra_fields
        e0 == [k \in {"component", "extra_fields"} |->
                  IF k = "component" THEN component ELSE fields]
        e1 == IF Truthy(correlation_id)
              THEN MapSet(e0, "correlation_id", correlation_id)
              ELSE IF Truthy(GetId(S, "correlation_id"))
                   THEN MapSet(e0, "correlation_id", GetId(S, "correlation_id"))
                   ELSE e0
    IN  IF Truthy(transaction_id) THEN MapSet(e1, "transaction_id", transaction_id)
        ELSE e1

\* logger.log(level, message, extra=extra): the LogRecord made for the call
\* by thread h; the keys of extra become attributes of the record.
MakeRecord(name, levelname, message, h, extra) ==
    DictUpdate([k \in {"name", "levelname", "msg", "threadName"} |->
                   CASE k = "name" -> name
                     [] k = "levelname" -> levelname
                     [] k = "msg" -> message
                     [] k = "threadName" -> h],
               extra)

\* CorrelationFilter.filter: a record without the attribute gets the ids of
\* the context.
CorrelationFilter(S, record) ==
    LET r1 == IF "correlation_id" \notin DOMAIN record
              THEN MapSet(record, "correlation_id", GetId(S, "correlation_id"))
              ELSE record
    IN  IF "transaction_id" \notin DOMAIN r1
        THEN MapSet(r1, "transaction_id", GetId(S, "transaction_id"))
        ELSE r1

\* getattr(record, 'component', 'unknown')
GetAttr(record, key, default) == IF key \in DOMAIN record THEN record[key] ELSE default

\* StructuredFormatter.format up to json.dumps: the base fields, the ids
\* the record has, the extra fields merged over them, then the location.
FormatData(record, now) ==
    LET base == [k \in {"timestamp", "level", "logger", "component", "message",
                        "service", "thread_name"} |->
                    CASE k = "timestamp" -> now \o "Z"
                      [] k = "level" -> record["levelname"]
                      [] k = "logger" -> record["name"]
                      [] k = "component" -> GetAttr(record, "component", "unknown")
                      [] k = "message" -> record["msg"]
                      [] k = "service" -> ServiceName
                      [] k = "thread_name" -> record["threadName"]]
        ids == [k \in {"correlation_id", "transaction_id", "user_id"} \cap DOMAIN record
                   |-> record[k]]
        d1 == DictUpdate(base, ids)
        d2 == IF "extra_fields" \in DOMAIN record
              THEN DictUpdate(d1, record["extra_fields"]) ELSE d1
    IN  MapSet(d2, "location", "helpers.py:107")

\* json.dumps of a dict whose values are strings or None, and json.loads of
\* the text it gives.
JsonDumps(d) ==
    [k \in DOMAIN d |-> IF d[k] = None THEN <<"null">> ELSE <<"string", d[k]>>]
JsonLoads(j) ==
    [k \in DOMAIN j |-> IF j[k] = <<"null">> THEN None ELSE j[k][2]]

\* StructuredFormatter.format
Format(record, now) == JsonDumps(FormatData(record, now))

\* A lock that is never held.
LockAlwaysFree(lock) == TRUE

\* Handler.acquire succeeds when no thread holds the handler's lock.
LockFree(lock) == lock = "free"

NoRecord == [call |-> 0, record |-> EmptyMap]

LogInit ==
    /\ logPc = [t \in TaskIds |-> "idle"]
    /\ logRec = [t \in TaskIds |-> NoRecord]
    /\ handlerLock = "free"
    /\ logFile = <<>>
    /\ infoCalls = <<>>

logOthersUnchanged == UNCHANGED <<bufVars, handlerVars, safeVars, dispVars, ctxVars, heapVars, httpVars, fileVars, lockVars>>

\* What infoCalls keeps of a call: who made it with which message and
\* arguments, the context S that was current when _log ran, and the
\* correlation id the caller of the logging method had (request).
Call(t, message, correlation_id, transaction_id, extra_fields, S) ==
    [thread |-> t, message |-> message, extra_fields |-> extra_fields,
     correlation_id |-> correlation_id, transaction_id |-> transaction_id,
     context |-> GetCurrentContext(S), request |-> get_correlation_id(t)]

\* Thread t calls StructuredLogger._log through debug, info or warning with
\* the keyword arguments correlation_id and transaction_id (None when not
\* given) and **extra_fields: _log builds extra and logger.log makes the
\* record; the handler is still to be called.
StructuredLogger_log(t, levelname, correlation_id, transaction_id, extra_fields) ==
    /\ Running(t)
    /\ logPc[t] = "idle"
    /\ Len(infoCalls) < MaxInfoCalls
    /\ LET message == MsgText[Len(infoCalls) + 1]
           extra == LogExtra(Store(t), Component, None, correlation_id,
                             transaction_id, extra_fields)
       IN  /\ logRec' = [logRec EXCEPT ![t] =
                   [call |-> Len(infoCalls) + 1,
                    record |-> MakeRecord(LoggerName, levelname, message, thread[t], extra)]]
           /\ infoCalls' = Append(infoCalls, Call(t, message, correlation_id,
                                                  transaction_id, extra_fields,
                                                  Store(t)))
    /\ logPc' = [logPc EXCEPT ![t] = "handle"]
    /\ UNCHANGED <<handlerLock, logFile>>
    /\ logOthersUnchanged

\* Thread t calls StructuredLogger.info(message, **extra_fields).
info(t, extra_fields) == StructuredLogger_log(t, "INFO", None, None, extra_fields)

\* Handler.handle: the record passes the handler's filter and the thread
\* takes the handler's lock.
HandlerAcquire(t) ==
    /\ logPc[t] = "handle"
    /\ LockFree(handlerLock)
    /\ logRec' = [logRec EXCEPT ![t].record = CorrelationFilter(Store(t), @)]
    /\ handlerLock' = t
    /\ logPc' = [logPc EXCEPT ![t] = "emit"]
    /\ UNCHANGED <<logFile, infoCalls>>
    /\ logOthersUnchanged

\* StreamHandler.emit: the formatted record starts to reach the stream.
HandlerEmit(t) ==
    /\ logPc[t] = "emit"
    /\ logFile' = Append(logFile, [call |-> logRec[t].call, part |-> "text",
                                   text |-> Format(logRec[t].record, Now)])
    /\ logPc' = [logPc EXCEPT ![t] = "terminator"]
    /\ UNCHANGED <<logRec, handlerLock, infoCalls>>
    /\ logOthersUnchanged

\* The terminator ends the line, the stream is flushed and Handler.handle
\* releases the lock: the info call returns.
HandlerRelease(t) ==
    /\ logPc[t] = "terminator"
    /\ logFile' = Append(logFile, [call |-> logRec[t].call, part |-> "terminator",
                                   text |-> EmptyMap])
    /\ handlerLock' = "free"
    /\ logPc' = [logPc EXCEPT ![t] = "idle"]
    /\ logRec' = [logRec EXCEPT ![t] = NoRecord]
    /\ UNCHANGED infoCalls
    /\ logOthersUnchanged

\* TransactionLogger.log_queued(transaction_id, queue_name) on a thread that
\* is alone: inside "with LoggingContext(transaction_id=transaction_id)" it
\* calls info with the event, transaction_id and queue; the record passes
\* the handler, and the scope is left.
TransactionLogger_log_queued(t, transaction_id, queue_name) ==
    /\ Running(t)
    /\ logPc[t] = "idle"
    /\ LockFree(handlerLock)
    /\ Len(infoCalls) < MaxInfoCalls
    /\ nextGen <= MaxGen
    /\ LET a == [NoArgs EXCEPT !.transaction_id = transaction_id,
                               !.auto_generate_correlation = TRUE]
           scope == Snapshot(Store(t))
           S1 == EnterStore(Store(t), a, GenId(nextGen))
           message == MsgText[Len(infoCalls) + 1]
           fields == [k \in {"queue"} |-> queue_name]
           extra == LogExtra(S1, Component, "transaction.queued", None,
                             transaction_id, fields)
           record == CorrelationFilter(S1, MakeRecord(LoggerName, "INFO", message,
                                                      thread[t], extra))
           n == Len(infoCalls) + 1
       IN  /\ Put(t, ExitStore(S1, scope))
           /\ logFile' = logFile \o
                  <<[call |-> n, part |-> "text", text |-> Format(record, Now)],
                    [call |-> n, part |-> "terminator", text |-> EmptyMap]>>
           /\ infoCalls' = Append(infoCalls, Call(t, message, None, transaction_id,
                                                  fields, S1))
    /\ nextGen' = nextGen + 1
    /\ genBy' = [genBy EXCEPT ![nextGen] = thread[t]]
    /\ lastOp' = Op("log_queued", t)
    /\ UNCHANGED <<thread, scopes, logPc, logRec, handlerLock>>
    /\ UNCHANGED <<bufVars, handlerVars, safeVars, dispVars, heapVars, httpVars, fileVars, lockVars>>

(***************************************************************************)
(* The dict objects behind the extra fields (context.py).  Two names may   *)
(* refer to one dict, and a write through one is then seen through the     *)
(* other, so here a dict is an object of a heap and the stores hold        *)
(* references.  A task starts in a Context where _extra_fields_ctx still   *)
(* has its default, the one dict DefaultDict.                              *)
(***************************************************************************)

DefaultDict == 1      \* the {} of ContextVar('extra_fields', default={})
NoObj == 0            \* _thread_local has no attribute extra_fields

HeapTasks == {"t1"}

ObjIds == 1..(MaxHeld + 2 * Cardinality(HeapTasks) + 6)

\* A new dict object.
Fresh(h) == CHOOSE i \in ObjIds \ DOMAIN h : \A j \in ObjIds \ DOMAIN h : i <= j

Alloc(h, items) ==
    LET n == Fresh(h)
    IN  [heap |-> [i \in DOMAIN h \cup {n} |-> IF i = n THEN items ELSE h[i]],
         ref |-> n]

\* The part of the heap task t's call works on: the heap, the dict of its
\* ContextVar and the dict of _thread_local.
View(t) == [heap |-> heap, ctx |-> ctxRef[t], tl |-> tlRef]

\* "d[key] = value" on the dict the ContextVar holds, without copying it.
CtxWriteInPlace(H, key, value) ==
    [H EXCEPT !.heap = [@ EXCEPT ![H.ctx] = MapSet(@, key, value)]]

\* "extra = ctx.get().copy(); extra[key] = value; ctx.set(extra)"
CtxWrite(H, key, value) ==
    LET a == Alloc(H.heap, MapSet(H.heap[H.ctx], key, value))
    IN  [H EXCEPT !.heap = a.heap, !.ctx = a.ref]

\* set_extra_field: then "_thread_local.extra_fields[key] = value" on the
\* dict of _thread_local, which is created when the attribute is missing.
HeapSetExtraField(H, key, value) ==
    LET H1 == CtxWrite(H, key, value)
        a  == Alloc(H1.heap, EmptyMap)
        H2 == IF H1.tl = NoObj THEN [H1 EXCEPT !.heap = a.heap, !.tl = a.ref]
              ELSE H1
    IN  [H2 EXCEPT !.heap = [@ EXCEPT ![H2.tl] = MapSet(@, key, value)]]

\* clear_extra_fields: the ContextVar gets a new {}, and so does
\* _thread_local when it has the attribute.
HeapClearExtraFields(H) ==
    LET a  == Alloc(H.heap, EmptyMap)
        H1 == [H EXCEPT !.heap = a.heap, !.ctx = a.ref]
        b  == Alloc(H1.heap, EmptyMap)
    IN  IF H1.tl = NoObj THEN H1 ELSE [H1 EXCEPT !.heap = b.heap, !.tl = b.ref]

\* get_extra_fields: a copy of the ContextVar's dict when it is not empty,
\* else a copy of the dict of _thread_local, else of a new {}.
HeapGetExtraFields(H) ==
    LET items == IF H.heap[H.ctx] # EmptyMap THEN H.heap[H.ctx]
                 ELSE IF H.tl # NoObj THEN H.heap[H.tl] ELSE EmptyMap
    IN  Alloc(H.heap, items)

\* The loop "for key, value in fields.items(): set_extra_field(key, value)".
RECURSIVE HeapSetExtraFields(_, _, _)
HeapSetExtraFields(H, fields, keys) ==
    IF keys = {} THEN H
    ELSE LET k == CHOOSE x \in keys : TRUE
         IN  HeapSetExtraFields(HeapSetExtraField(H, k, fields[k]), fields,
                                keys \ {k})

Handed(ref, h, kind, t) == [ref |-> ref, was |-> h[ref], kind |-> kind, owner |-> t]

\* The snapshot the open scope of task t keeps (at most one scope a task).
Snapshots(t) == {x \in held : x.kind = "snapshot" /\ x.owner = t}

\* Task t's call leaves H behind while the dicts of hs are handed out; a
\* dict no name refers to any more is gone.
HeapPut(t, H, hs) ==
    LET refs == [ctxRef EXCEPT ![t] = H.ctx]
        live == {DefaultDict, H.tl} \cup {refs[u] : u \in HeapTasks}
                    \cup {x.ref : x \in hs}
    IN  /\ ctxRef' = refs
        /\ tlRef' = H.tl
        /\ held' = hs
        /\ heap' = [i \in DOMAIN H.heap \cap live |-> H.heap[i]]

HeapInit ==
    /\ heap = [i \in {DefaultDict} |-> EmptyMap]
    /\ ctxRef = [t \in HeapTasks |-> DefaultDict]
    /\ tlRef = NoObj
    /\ held = {}

heapOthersUnchanged ==
    UNCHANGED <<bufVars, handlerVars, safeVars, dispVars, logVars, httpVars,
                fileVars, lockVars, thread, ctxv, tlocal, scopes, nextGen, genBy>>

heap_set_extra_field(t, key, value) ==
    /\ HeapPut(t, HeapSetExtraField(View(t), key, value), held)
    /\ lastOp' = Op("set_extra_field", t)
    /\ heapOthersUnchanged

heap_clear_extra_fields(t) ==
    /\ HeapPut(t, HeapClearExtraFields(View(t)), held)
    /\ lastOp' = Op("clear_extra_fields", t)
    /\ heapOthersUnchanged

\* The caller keeps the dict that get_extra_fields returned.
heap_get_extra_fields(t) ==
    /\ Cardinality(held) < MaxHeld
    /\ LET a == HeapGetExtraFields(View(t))
       IN  HeapPut(t, [View(t) EXCEPT !.heap = a.heap],
                   held \cup {Handed(a.ref, a.heap, "returned", t)})
    /\ lastOp' = Op("get_extra_fields", t)
    /\ heapOthersUnchanged

\* The caller forgets a dict that get_extra_fields returned.
heap_forget(x) ==
    /\ x \in held
    /\ x.kind = "returned"
    /\ HeapPut(x.owner, View(x.owner), held \ {x})
    /\ lastOp' = Op("forget", x.owner)
    /\ heapOthersUnchanged

\* __enter__: prev_extra_fields is what get_extra_fields returns, then the
\* scope's own fields are set.
heap_enter(t, fields) ==
    /\ Snapshots(t) = {}
    /\ Cardinality(held) < MaxHeld
    /\ LET a == HeapGetExtraFields(View(t))
           H == HeapSetExtraFields([View(t) EXCEPT !.heap = a.heap], fields,
                                   DOMAIN fields)
       IN  HeapPut(t, H, held \cup {Handed(a.ref, a.heap, "snapshot", t)})
    /\ lastOp' = Op("enter", t)
    /\ heapOthersUnchanged

\* __exit__: clear_extra_fields, then set_extra_field for every item of
\* prev_extra_fields; the scope object and its snapshot are gone afterwards.
heap_exit(t) ==
    /\ \E x \in Snapshots(t) :
           HeapPut(t, HeapSetExtraFields(HeapClearExtraFields(View(t)),
                                         heap[x.ref], DOMAIN heap[x.ref]),
                   held \ {x})
    /\ lastOp' = Op("exit", t)
    /\ heapOthersUnchanged

(***************************************************************************)
(* The HTTP logging middlewares (middleware.py).  The headers of a request *)
(* are a function from header names to values, None for a header the      *)
(* request lacks; both frameworks look a header up whatever its case, so   *)
(* the names are kept in lower case.                                       *)
(***************************************************************************)

HeaderNames == {"x-correlation-id", "x-request-id", "x-trace-id",
                "correlation-id", "request-id"}

\* str.lower() of the spellings the middlewares ask for.
Lower(name) ==
    CASE name = "X-Correlation-ID" -> "x-correlation-id"
      [] name = "X-Request-ID" -> "x-request-id"
      [] name = "X-Trace-ID" -> "x-trace-id"
      [] name = "Correlation-ID" -> "correlation-id"
      [] name = "Request-ID" -> "request-id"
      [] OTHER -> name

\* headers.get(header)
HeadersGet(headers, header) == headers[Lower(header)]

\* The correlation_headers list of _extract_correlation_id, of
\* HTTPLoggingMiddleware (Flask) and of FastAPILoggingMiddleware.
CorrelationHeaders(kind) ==
    IF kind = "flask"
    THEN <<"X-Correlation-ID", "X-Request-ID", "X-Trace-ID", "Correlation-ID",
           "Request-ID">>
    ELSE <<"x-correlation-id", "x-request-id", "x-trace-id">>

\* A loop over the list that returns the first header the request has,
\* empty or not.
RECURSIVE ExtractLoopPresent(_, _, _, _)
ExtractLoopPresent(headers, list, i, fresh) ==
    IF i > Len(list) THEN [id |-> fresh, generated |-> TRUE]
    ELSE LET value == HeadersGet(headers, list[i])
         IN  IF value # None THEN [id |-> value, generated |-> FALSE]
             ELSE ExtractLoopPresent(headers, list, i + 1, fresh)

\* The loop of _extract_correlation_id from the i-th header of the list on:
\* the first value that is true is returned, and generate_correlation_id()
\* (fresh) when the list is exhausted.
RECURSIVE ExtractLoop(_, _, _, _)
ExtractLoop(headers, list, i, fresh) ==
    IF i > Len(list) THEN [id |-> fresh, generated |-> TRUE]
    ELSE LET value == HeadersGet(headers, list[i])
         IN  IF Truthy(value) THEN [id |-> value, generated |-> FALSE]
             ELSE ExtractLoop(headers, list, i + 1, fresh)

\* _extract_correlation_id(headers)
ExtractCorrelationId(kind, headers, fresh) ==
    ExtractLoop(headers, CorrelationHeaders(kind), 1, fresh)

\* One call of a logging method of the middleware's StructuredLogger('http',
\* 'http') by task t with the context S, on a handler no other thread uses:
\* the lines on the stream and the history of calls afterwards.
HttpLog(t, S, levelname, message, correlation_id, fields, file, calls) ==
    LET n == Len(calls) + 1
        extra == LogExtra(S, "http", None, correlation_id, None, fields)
        record == CorrelationFilter(S, MakeRecord("http", levelname, message,
                                                  thread[t], extra))
    IN  [logFile |-> file \o
             <<[call |-> n, part |-> "text", text |-> Format(record, Now)],
               [call |-> n, part |-> "terminator", text |-> EmptyMap]>>,
         infoCalls |-> Append(calls, Call(t, message, correlation_id, None,
                                          fields, S))]

\* The keyword arguments of the middleware's logging calls.
RequestFields == [k \in {"method", "path"} |-> IF k = "method" THEN "GET" ELSE "/"]
ResponseFields == MapSet(RequestFields, "status_code", "200")

\* headers.append(('X-Correlation-ID', correlation_id)) on the list of
\* headers handed to start_response (Flask).
HeadersAppend(headers, name, value) == Append(headers, <<name, value>>)

\* response.headers['X-Correlation-ID'] = correlation_id (FastAPI): the
\* header replaces the ones of that name.
HeadersSet(headers, name, value) ==
    Append(SelectSeq(headers, LAMBDA h : Lower(h[1]) # Lower(name)), <<name, value>>)

NoRequest == [pc |-> "idle", kind |-> "none", headers |-> [h \in HeaderNames |-> None],
              correlation_id |-> None, context |-> None, response |-> <<>>]

HttpInit == http = [t \in TaskIds |-> NoRequest]

\* The middleware is called on task t for a request without body: it
\* extracts the correlation id, sets it in the context, keeps it for the
\* views and logs the request; the application is then called.
http_call(t, kind, headers) ==
    /\ Running(t)
    /\ http[t].pc = "idle"
    /\ logPc[t] = "idle"
    /\ LockFree(handlerLock)
    /\ LET x == ExtractCorrelationId(kind, headers, GenId(nextGen))
           S1 == SetCorrelationId(Store(t), x.id, GenId(nextGen))
           l == HttpLog(t, S1, "INFO", "HTTP Request", x.id, RequestFields,
                        logFile, infoCalls)
       IN  /\ x.generated => nextGen <= MaxGen
           /\ Put(t, S1)
           /\ nextGen' = IF x.generated THEN nextGen + 1 ELSE nextGen
           /\ genBy' = IF x.generated
                       THEN [genBy EXCEPT ![nextGen] = thread[t]] ELSE genBy
           /\ http' = [http EXCEPT ![t] =
                   [pc |-> "handling", kind |-> kind, headers |-> headers,
                    correlation_id |-> x.id,
                    context |-> GetId(S1, "correlation_id"),
                    response |-> <<>>]]
           /\ logFile' = l.logFile
           /\ infoCalls' = l.infoCalls
    /\ lastOp' = Op("http_call", t)
    /\ UNCHANGED <<thread, scopes, logPc, logRec, handlerLock>>
    /\ UNCHANGED <<bufVars, handlerVars, safeVars, dispVars, heapVars, fileVars, lockVars>>

\* The application answers with the headers appHeaders: the middleware logs
\* the response and adds the X-Correlation-ID header (custom_start_response
\* of the Flask middleware, the lines after call_next of the FastAPI one).
http_respond(t, appHeaders) ==
    /\ http[t].pc = "handling"
    /\ logPc[t] = "idle"
    /\ LockFree(handlerLock)
    /\ LET r == http[t]
           l == HttpLog(t, Store(t), "INFO", "HTTP Response", r.correlation_id,
                        ResponseFields, logFile, infoCalls)
       IN  /\ http' = [http EXCEPT ![t].pc = "responded",
                                   ![t].response =
                                       IF r.kind = "flask"
                                       THEN HeadersAppend(appHeaders, "X-Correlation-ID",
                                                          r.correlation_id)
                                       ELSE HeadersSet(appHeaders, "X-Correlation-ID",
                                                       r.correlation_id)]
           /\ logFile' = l.logFile
           /\ infoCalls' = l.infoCalls
    /\ UNCHANGED <<ctxVars, logPc, logRec, handlerLock>>
    /\ UNCHANGED <<bufVars, handlerVars, safeVars, dispVars, heapVars, fileVars, lockVars>>

\* The application raises: the FastAPI middleware logs the failure through
\* StructuredLogger.error, which takes correlation_id as an extra field, and
\* raises again; the Flask middleware lets the exception pass.  No response
\* is made.
http_fail(t) ==
    /\ http[t].pc = "handling"
    /\ logPc[t] = "idle"
    /\ LockFree(handlerLock)
    /\ LET r == http[t]
           l == HttpLog(t, Store(t), "ERROR", "HTTP Request failed", None,
                        MapSet(RequestFields, "correlation_id", r.correlation_id),
                        logFile, infoCalls)
       IN  /\ http' = [http EXCEPT ![t].pc = "failed"]
           /\ logFile' = IF r.kind = "fastapi" THEN l.logFile ELSE logFile
           /\ infoCalls' = IF r.kind = "fastapi" THEN l.infoCalls ELSE infoCalls
    /\ UNCHANGED <<ctxVars, logPc, logRec, handlerLock>>
    /\ UNCHANGED <<bufVars, handlerVars, safeVars, dispVars, heapVars, fileVars, lockVars>>

(***************************************************************************)
(* Specifications                                                          *)
(***************************************************************************)

\* The directly called operations of a BufferManager of any small capacity.
BufSpecInit ==
    /\ capacity \in 0..MaxCapacity
    /\ BufInit
    /\ HandlerInit
    /\ SafeInit
    /\ DispatchInit
    /\ ContextInit
    /\ LogInit
    /\ HeapInit
    /\ HttpInit
    /\ LockInit

BufNext ==
    \/ \E message \in Msgs : Add(message)
    \/ \E ok \in [1..Len(buffer) -> BOOLEAN] : Flush(ok)

BufSpec == BufSpecInit /\ [][BufNext]_vars

\* A SafeLogger (its BufferManager has the default capacity) with its
\* FallbackHandler: the application logs, recovers and stops the handler
\* while the worker thread runs.
SafeSpecInit ==
    /\ capacity = DefaultCapacity
    /\ BufInit
    /\ HandlerInit
    /\ SafeInit
    /\ DispatchInit
    /\ ContextInit
    /\ LogInit
    /\ HeapInit
    /\ HttpInit
    /\ LockInit

SafeNext ==
    \/ Worker
    \/ StopCall(FALSE)
    \/ StopRun
    \/ \E level \in LogLevels, primaryOk \in BOOLEAN : Log(level, primaryOk)
    \/ \E ok \in [1..Len(buffer) -> BOOLEAN] : Recover(ok)

SafeSpec == SafeSpecInit /\ [][SafeNext]_vars

\* The SafeLogger through its own methods, log and recover, while the
\* worker thread of its handler runs; nothing stops the handler.
LoggerNext ==
    \/ Worker
    \/ \E level \in LogLevels, primaryOk \in BOOLEAN : Log(level, primaryOk)
    \/ \E ok \in [1..Len(buffer) -> BOOLEAN] : Recover(ok)

LoggerSpec == SafeSpecInit /\ [][LoggerNext]_vars

\* A FallbackHandler alone: records are emitted and the handler is stopped
\* while its worker thread runs.
HandlerNext ==
    \/ FallbackEmit
    \/ Worker
    \/ StopCall(TRUE)
    \/ StopRun

HandlerSpec == SafeSpecInit /\ [][HandlerNext]_vars

\* A FallbackHandler in backup-file mode on a file system that works: the
\* backup file is the default one or lies one or two directories down, and
\* the directories may or may not exist yet.
BackupFiles == {DefaultBackupFile, <<"logs", "fallback.log">>,
                <<"var", "logs", "fallback.log">>}

FileSpecInit ==
    /\ capacity = DefaultCapacity
    /\ BufInit
    /\ HandlerStarted
    /\ mode = "file"
    /\ backupFile \in BackupFiles
    /\ dirs \in {{}, {<<"var">>}, {<<"logs">>}}
    /\ SafeInit
    /\ DispatchInit
    /\ ContextInit
    /\ LogInit
    /\ HeapInit
    /\ HttpInit
    /\ LockInit

FileNext ==
    \/ FallbackEmit
    \/ WorkerLoop
    \/ WorkerGet
    \/ WorkerTimeout
    \/ WorkerWrite(TRUE)
    \/ StopCall(TRUE)
    \/ StopJoin
    \/ StopCheck
    \/ StopGet
    \/ StopWrite(TRUE)

FileSpec == FileSpecInit /\ [][FileNext]_vars

\* The handler alone, with a worker thread and a stop() call that keep
\* running; the threads that emit need not emit again.
HandlerFairSpec ==
    /\ HandlerSpec
    /\ WF_vars(Worker)
    /\ WF_vars(StopRun)

\* A BufferManager of any small capacity shared by two threads that add and
\* one that flushes, with callbacks that raise or not.
LockSpecInit ==
    /\ capacity \in 0..MaxCapacity
    /\ BufInit
    /\ HandlerInit
    /\ SafeInit
    /\ DispatchInit
    /\ ContextInit
    /\ LogInit
    /\ HeapInit
    /\ HttpInit
    /\ LockInit

LockNext ==
    \/ \E t \in Producers : add_call(t)
    \/ \E t \in Producers : add_acquire(t)
    \/ \E t \in Producers : add_body(t)
    \/ \E t \in Flushers : flush_acquire(t)
    \/ \E t \in Flushers, ok \in [1..Len(buffer) -> BOOLEAN] : flush_loop(t, ok)
    \/ \E t \in Flushers : flush_clear(t)

LockSpec == LockSpecInit /\ [][LockNext]_vars

\* The worker thread and a stop() call under way keep running.
SafeFairSpec ==
    /\ SafeSpec
    /\ WF_vars(Worker)
    /\ WF_vars(StopRun)

\* A dispatcher on which channels are registered and messages dispatched.
DispatchSpecInit ==
    /\ capacity = DefaultCapacity
    /\ BufInit
    /\ HandlerInit
    /\ SafeInit
    /\ DispatchInit
    /\ ContextInit
    /\ LogInit
    /\ HeapInit
    /\ HttpInit
    /\ LockInit

DispatchNext ==
    \/ \E level \in RegisterLevels, channel \in Channels : Register(level, channel)
    \/ \E level \in MessageLevels : DispatchCall(level)
    \/ \E sent \in [1..Len(ChannelsGet(channels, dispatch.level)) -> BOOLEAN] :
         DispatchAttempt(sent)
    \/ DispatchSleep

DispatchSpec == DispatchSpecInit /\ [][DispatchNext]_vars

\* The arguments of a LoggingContext.
Args(cid, tid, uid, auto, extra) ==
    [correlation_id |-> cid, transaction_id |-> tid, user_id |-> uid,
     auto_generate_correlation |-> auto, extra_fields |-> extra]

ContextSpecInit ==
    /\ capacity = DefaultCapacity
    /\ BufInit
    /\ HandlerInit
    /\ SafeInit
    /\ DispatchInit
    /\ ContextInit
    /\ LogInit
    /\ HeapInit
    /\ HttpInit
    /\ LockInit

\* Two cooperative tasks of one thread that set, clear and scope the
\* correlation id.
Cooperative == {"t1", "t2"}

CorrelationInputs == {"", "A"}

CorrelationScopeArgs ==
    {Args(cid, None, None, auto, EmptyMap) : cid \in {None, "B"}, auto \in BOOLEAN}

TaskNext ==
    \/ \E p, c \in Cooperative : spawn_task(p, c)
    \/ \E t \in Cooperative, v \in CorrelationInputs \cup {None} : set_correlation_id(t, v)
    \/ \E t \in Cooperative : clear_correlation_id(t)
    \/ \E t \in Cooperative, a \in CorrelationScopeArgs : LoggingContext_enter(t, a)
    \/ \E t \in Cooperative : LoggingContext_exit(t)

TaskSpec == ContextSpecInit /\ [][TaskNext]_vars

\* Two threads that set and clear all four slots.  A thread sets values no
\* other thread sets, so that a value read tells which thread set it.
Threads == {"t1", "t2"}

OwnValue(h) == IF h = "t1" THEN "A" ELSE "B"

ExtraKeys == {"k1", "k2"}

\* The values thread h sets, and the ids generated on it.
SetOn(h) == {OwnValue(h)} \cup {GenId(n) : n \in {i \in 1..Len(GenPool) : genBy[i] = h}}

ThreadNext ==
    \/ \E c \in Threads : start_thread(c)
    \/ \E t \in Threads : set_correlation_id(t, OwnValue(thread[t]))
    \/ \E t \in Threads : set_correlation_id(t, None)
    \/ \E t \in Threads : clear_correlation_id(t)
    \/ \E t \in Threads : set_transaction_id(t, OwnValue(thread[t]))
    \/ \E t \in Threads : clear_transaction_id(t)
    \/ \E t \in Threads : set_user_id(t, OwnValue(thread[t]))
    \/ \E t \in Threads : clear_user_id(t)
    \/ \E t \in Threads, k \in ExtraKeys : set_extra_field(t, k, OwnValue(thread[t]))
    \/ \E t \in Threads : clear_extra_fields(t)
    \/ \E t \in Threads : clear_all_context(t)

ThreadSpec == ContextSpecInit /\ [][ThreadNext]_vars

\* One task that nests LoggingContext scopes over all four slots.
ScopeArgs ==
    { Args(None, None, None, TRUE, EmptyMap),           \* LoggingContext()
      Args(None, None, None, FALSE, EmptyMap),
      Args("", None, None, FALSE, EmptyMap),
      Args(None, "T1", "U1", FALSE, [k \in {"k1"} |-> "x"]),
      Args("A", "T1", "U1", TRUE, [k \in {"k1"} |-> "x"]) }

ScopeNext ==
    \/ \E v \in {"", None} : set_correlation_id("t1", v)
    \/ set_extra_field("t1", "k2", "y")
    \/ clear_all_context("t1")
    \/ \E a \in ScopeArgs : LoggingContext_enter("t1", a)
    \/ LoggingContext_exit("t1")
    \/ LoggingContext_exit_raising("t1")

ScopeSpec == ContextSpecInit /\ [][ScopeNext]_vars

\* One task that sets, overwrites and clears extra fields inside and outside
\* nested scopes, some of which bring an extra field of their own.
ExtraValues == {"x", "y"}

ExtraScopeArgs ==
    { Args(None, None, None, FALSE, EmptyMap),
      Args(None, None, None, FALSE, [k \in {"k1"} |-> "y"]) }

ExtraNext ==
    \/ \E k \in ExtraKeys, v \in ExtraValues : set_extra_field("t1", k, v)
    \/ clear_extra_fields("t1")
    \/ \E a \in ExtraScopeArgs : LoggingContext_enter("t1", a)
    \/ LoggingContext_exit("t1")
    \/ LoggingContext_exit_raising("t1")

ExtraSpec == ContextSpecInit /\ [][ExtraNext]_vars

\* Two cooperative tasks of one thread that set and clear all four slots.
ClearNext ==
    \/ \E p, c \in Cooperative : spawn_task(p, c)
    \/ \E t \in Cooperative : set_correlation_id(t, "A")
    \/ \E t \in Cooperative : clear_correlation_id(t)
    \/ \E t \in Cooperative : set_transaction_id(t, "T1")
    \/ \E t \in Cooperative : clear_transaction_id(t)
    \/ \E t \in Cooperative : set_user_id(t, "U1")
    \/ \E t \in Cooperative : clear_user_id(t)
    \/ \E t \in Cooperative : set_extra_field(t, "k1", "x")
    \/ \E t \in Cooperative : clear_extra_fields(t)
    \/ \E t \in Cooperative : clear_all_context(t)

ClearSpec == ContextSpecInit /\ [][ClearNext]_vars

\* One task that sets, reads and clears the extra fields and opens scopes,
\* with every dict an object of the heap.
HeapNext ==
    \/ \E t \in HeapTasks, k \in ExtraKeys : heap_set_extra_field(t, k, "x")
    \/ \E t \in HeapTasks : heap_clear_extra_fields(t)
    \/ \E t \in HeapTasks : heap_get_extra_fields(t)
    \/ \E x \in held : heap_forget(x)
    \/ \E t \in HeapTasks, fields \in {EmptyMap, [k \in {"k1"} |-> "x"]} :
           heap_enter(t, fields)
    \/ \E t \in HeapTasks : heap_exit(t)

HeapSpec == ContextSpecInit /\ [][HeapNext]_vars

\* Threads that call StructuredLogger.info on one logger.
LogThreads == {"t1", "t2"}

\* The extra fields handed to info: none, the ones of
\* TransactionLogger.log_received for a transaction without timestamp, some.
InfoExtras == {EmptyMap,
               [k \in {"amount", "timestamp"} |-> IF k = "amount" THEN "10" ELSE None],
               [k \in {"queue"} |-> "q1"]}

LogNext ==
    \/ \E c \in LogThreads : start_thread(c)
    \/ \E t \in LogThreads, e \in InfoExtras : info(t, e)
    \/ \E t \in LogThreads : HandlerAcquire(t)
    \/ \E t \in LogThreads : HandlerEmit(t)
    \/ \E t \in LogThreads : HandlerRelease(t)

LogSpec == ContextSpecInit /\ [][LogNext]_vars

\* One thread that handles requests: it sets the correlation id and other
\* context, logs through StructuredLogger and TransactionLogger, and clears
\* the context.  A call on the context is made between two logging calls.
Idle(t) == logPc[t] = "idle"

RecordNext ==
    \/ Idle("t1") /\ set_correlation_id("t1", "A")
    \/ Idle("t1") /\ set_transaction_id("t1", "T1")
    \/ Idle("t1") /\ set_user_id("t1", "U1")
    \/ Idle("t1") /\ set_extra_field("t1", "k1", "x")
    \/ Idle("t1") /\ clear_all_context("t1")
    \/ /\ Len(infoCalls) < MaxRecords
       /\ \E cid \in {None, "B"} :
              StructuredLogger_log("t1", "INFO", cid, None, EmptyMap)
    \/ /\ Len(infoCalls) < MaxRecords
       /\ TransactionLogger_log_queued("t1", "T1", "q1")
    \/ HandlerAcquire("t1")
    \/ HandlerEmit("t1")
    \/ HandlerRelease("t1")

RecordSpec == ContextSpecInit /\ [][RecordNext]_vars

\* Two tasks of one thread, each handling one request through a logging
\* middleware, with an application that leaves the context alone.  The first request carries any combination of absent,
\* empty and non-empty correlation headers and goes through either
\* middleware; the second carries none and goes through the FastAPI one, or
\* only the last of the list and goes through the Flask one.
HttpTasks == {"t1", "t2"}

HeaderValue(h) ==
    CASE h = "x-correlation-id" -> "h1"
      [] h = "x-request-id" -> "h2"
      [] h = "x-trace-id" -> "h3"
      [] h = "correlation-id" -> "h4"
      [] h = "request-id" -> "h5"

AnyHeaders ==
    {[h \in HeaderNames |-> IF f[h] = "value" THEN HeaderValue(h) ELSE f[h]] :
        f \in [HeaderNames -> {None, "", "value"}]}

Requests(t) ==
    IF t = "t1"
    THEN {"flask", "fastapi"} \X AnyHeaders
    ELSE {<<"fastapi", [h \in HeaderNames |-> None]>>,
          <<"flask", [h \in HeaderNames |-> IF h = "request-id" THEN "h5" ELSE None]>>}

AppHeaders == {<<>>, << <<"X-Correlation-ID", "app">> >>}

HttpNext ==
    \/ spawn_task("t1", "t2")
    \/ \E t \in HttpTasks : \E r \in Requests(t) : http_call(t, r[1], r[2])
    \/ \E t \in HttpTasks, appHeaders \in AppHeaders : http_respond(t, appHeaders)
    \/ \E t \in HttpTasks : http_fail(t)

HttpSpec == ContextSpecInit /\ [][HttpNext]_vars

(***************************************************************************)
(* Properties of the fallback path                                         *)
(***************************************************************************)

\* C1: whenever the primary logger raised in the SafeLogger.log call just
\* made, the call returned without raising and the message is in the
\* fallback buffer.
C1_SafeLoggerAbsorbsFailure ==
    (lastCall.op = "log" /\ lastCall.primaryRaised)
        => (~lastCall.propagated /\ InSeq(lastCall.msg, buffer))

\* A log call has just failed on a primary logger that accepted an earlier
\* call and refused another one before.
C1_Witness ==
    /\ lastCall.op = "log"
    /\ lastCall.primaryRaised
    /\ primary # <<>>
    /\ Len(buffer) >= 2
    /\ InSeq(lastCall.msg, buffer)

\* C2: every message whose primary log call failed is eventually written to
\* the fallback sink or delivered to the primary logger by a recover.
C2_NoMessageDropped ==
    \A m \in 1..MaxLogs : (m \in failed) ~> (Written(m) \/ Delivered(m))

\* C26: the step that ends a write of the worker leaves the worker in its
\* loop with nothing in hand; the record is on the sink, or, when the write
\* raised, on the error stream and not back on the queue.  The worker exits
\* only from the test of its loop, the stop event being set.
C26_WorkerSurvivesWriteFailure ==
    [][/\ (workerPc = "write" /\ workerPc' # "write") =>
              /\ workerPc' = "loop"
              /\ workerMsg' = NoMsg
              /\ queue' = queue
              /\ \/ sink' = Append(sink, workerMsg) /\ errStream' = errStream
                 \/ sink' = sink /\ errStream' = Append(errStream, workerMsg)
       /\ (workerPc # "exited" /\ workerPc' = "exited") =>
              workerPc = "loop" /\ stopEvent]_vars

\* The write of the first record raised and, no stop() having been called,
\* the worker has written the record enqueued after it.
C26_Witness ==
    /\ nStop = 0
    /\ errStream = <<Timestamped(ErrorRecord(1))>>
    /\ InSeq(Timestamped(ErrorRecord(2)), sink)
    /\ ~InSeq(Timestamped(ErrorRecord(1)), sink)
    /\ workerPc # "exited"

\* The number of the message a fallback record is about.
Num(record) == record[2][2]

\* C27: once stop() has returned and no write has raised, the record of every
\* message emitted before stop() was called is on the sink.
C27_StopDrainsEverything ==
    (stopPc = "returned" /\ errStream = <<>>)
        => \A m \in 1..(atStop - 1) : InSeq(Timestamped(ErrorRecord(m)), sink)

\* C28: the records on the sink are in the order in which they were emitted.
C28_SinkFifo ==
    \A i, j \in 1..Len(sink) : i < j => Num(sink[i]) < Num(sink[j])

\* C29: a recover call hands every buffered message to the primary logger,
\* in insertion order and at level INFO, leaves the buffer empty, and emits
\* exactly one marker to the fallback handler, the success marker unless
\* flush raised.  The messages handed over are those the primary logger
\* accepted and the one it raised on, if it raised.
C29_RecoverResubmitsAll ==
    [][(lastCall'.op = "recover" /\ nRecover' = nRecover + 1) =>
           LET accepted == Len(primary') - Len(primary)
               submitted == accepted + (IF lastCall'.primaryRaised THEN 1 ELSE 0)
           IN  /\ submitted = Len(buffer)
               /\ \A i \in 1..accepted :
                      primary'[Len(primary) + i] = <<"INFO", buffer[i]>>
               /\ buffer' = <<>>
               /\ queue' = Emit(queue, RecoveryComplete)]_vars

\* The first message of a flush whose callback raised.
FirstFailure(ok) == CHOOSE i \in 1..Len(ok) : ~ok[i] /\ \A j \in 1..(i - 1) : ok[j]

\* C30: right after a flush whose callback raised, the callback has been
\* called on the messages up to and including the first one it raised on,
\* in insertion order, and on none after it; nothing was raised to the
\* caller and the buffer is empty.
C30_FlushStopsAtFirstFailure ==
    (bufOp = "flush" /\ \E i \in 1..Len(lastFlush.ok) : ~lastFlush.ok[i])
        => /\ lastFlush.calls = SubSeq(lastFlush.before, 1, FirstFailure(lastFlush.ok))
           /\ ~lastFlush.propagated
           /\ buffer = <<>>

\* A flush of three messages whose callback raised on the second one.
C30_Witness ==
    /\ bufOp = "flush"
    /\ Len(lastFlush.before) = 3
    /\ lastFlush.ok = <<TRUE, FALSE, TRUE>>
    /\ lastFlush.before[1] # lastFlush.before[2]
    /\ lastFlush.calls = SubSeq(lastFlush.before, 1, 2)
    /\ buffer = <<>>

\* C34: in backup-file mode on a file system that works, the step in which
\* the worker writes the record it dequeued appends that record to the
\* backup file, and the directory of the backup file exists afterwards,
\* whatever the path of the backup file is.
C34_BackupFileWritten ==
    [][(workerPc = "write" /\ workerPc' # "write")
          => /\ sink' = Append(sink, workerMsg)
             /\ Dirname(backupFile) # <<>> => Dirname(backupFile) \in dirs']_vars

\* C35: a stop() call that has set the stop event eventually returns (or
\* raises), however the worker and the emitting threads are interleaved
\* with it.
C35_StopReturns == (stopPc = "join") ~> (stopPc \in {"returned", "raised"})

\* C36: once stop() has returned the worker has terminated: in no step
\* taken while stop() has returned does the worker dequeue a record or
\* finish a write.
C36_WorkerDoneAfterStop ==
    [][(stopPc = "returned" /\ stopPc' = "returned")
          => /\ workerPc = "get" => workerPc' # "write"
             /\ workerPc = "write" => workerPc' = "write"]_vars

\* C37: a write that fails during the final drain of stop() does not make
\* stop() raise: the drain goes on to its next test of the queue.
C37_StopAbsorbsWriteFailure ==
    [][stopPc = "write" => stopPc' \in {"write", "check"}]_vars

\* C38: a recover call emits the success marker only if the primary logger
\* accepted, at level INFO and in order, every message the buffer held when
\* the call started.
C38_MarkerOnlyOnSuccess ==
    [][(nRecover' = nRecover + 1 /\ queue' = Emit(queue, RecoveryComplete))
          => /\ Len(primary') = Len(primary) + Len(buffer)
             /\ \A i \in 1..Len(buffer) :
                    primary'[Len(primary) + i] = <<"INFO", buffer[i]>>]_vars

\* The records written to the sink, dequeued and not written yet, or still
\* queued.
InFlight ==
    sink \o (IF workerMsg = NoMsg THEN <<>> ELSE <<workerMsg>>)
         \o (IF stopMsg = NoMsg THEN <<>> ELSE <<stopMsg>>) \o queue

\* C39: no record is on the sink twice, however the worker loop and the
\* final drain of stop() are interleaved: a record that one of them has
\* dequeued is no longer on the queue, nor held by the other, nor written.
C39_WrittenAtMostOnce ==
    /\ \A i, j \in 1..Len(sink) : sink[i] = sink[j] => i = j
    /\ \A i, j \in 1..Len(InFlight) : InFlight[i] = InFlight[j] => i = j

\* The worker, still alive after the join of stop(), and the drain of stop()
\* each hold a record they dequeued, after another record was written.
C39_Witness ==
    /\ workerPc = "write"
    /\ stopPc = "write"
    /\ workerMsg # stopMsg
    /\ Len(sink) >= 1

\* A step in which thread t leaves position pc of its add or flush call.
Leaves(t, pc) == bufThr[t].pc = pc /\ bufThr'[t].pc # pc

\* C40: whatever the interleaving of add and flush calls of several
\* threads, the buffer never holds more than capacity messages; the clear
\* of a flush removes only messages of the snapshot the flush looped over;
\* an add, also one called while a flush was under way, leaves its message
\* as the newest of the buffer (capacity permitting) and removes at most the
\* oldest message, and only from a full buffer; and no other step changes
\* the buffer.
C40_LockedBuffer ==
    [][/\ Len(buffer') <= capacity
       /\ \A t \in Flushers :
              Leaves(t, "clear") => buffer = bufThr[t].snapshot /\ buffer' = <<>>
       /\ \A t \in Producers :
              Leaves(t, "add") =>
                  /\ capacity >= 1 => buffer'[Len(buffer')] = bufThr[t].msg
                  /\ \A i \in 2..Len(buffer) : InSeq(buffer[i], buffer')
                  /\ (buffer # <<>> /\ Len(buffer) < capacity)
                         => InSeq(buffer[1], buffer')
       /\ (\A t \in Flushers : ~Leaves(t, "clear"))
           /\ (\A t \in Producers : ~Leaves(t, "add")) => buffer' = buffer]_vars

\* An add that was called while a flush was under way has completed after
\* the flush: the flush looped over the snapshot of an earlier message, and
\* the message of the add is in the buffer.
C40_Witness ==
    /\ bufThr["f1"].pc = "idle"
    /\ bufThr["f1"].snapshot = <<1>>
    /\ bufThr["p2"].pc = "idle"
    /\ bufThr["p2"].overlapped
    /\ bufThr["p2"].msg = 2
    /\ buffer = <<2>>

\* C7: the buffer holds exactly the last min(n, capacity) of the n messages
\* added since the last flush, in insertion order.
C7_FifoEviction ==
    buffer = LastN(added, Min(Len(added), capacity))

\* Five messages were added to a buffer of capacity 3, the first one
\* different from the third.
C7_Witness ==
    /\ capacity = 3
    /\ Len(added) = 5
    /\ added[1] # added[3]
    /\ buffer = SubSeq(added, 3, 5)

\* C8: right after a flush whose callback never raised, the buffer is empty
\* and the callback was called once per buffered message, in insertion order.
C8_FlushThenClear ==
    (bufOp = "flush" /\ \A i \in 1..Len(lastFlush.ok) : lastFlush.ok[i])
        => (buffer = <<>> /\ lastFlush.calls = lastFlush.before)

\* A flush of two different messages has just ended without a raise.
C8_Witness ==
    /\ bufOp = "flush"
    /\ \A i \in 1..Len(lastFlush.ok) : lastFlush.ok[i]
    /\ Len(lastFlush.before) >= 2
    /\ lastFlush.before[1] # lastFlush.before[2]
    /\ lastFlush.calls = lastFlush.before

(***************************************************************************)
(* Properties of the dispatcher                                            *)
(***************************************************************************)

\* Attempt a of the dispatch had channels to send to and every send returned
\* True.
AttemptSucceeded(a) ==
    /\ dispatch.targets # <<>>
    /\ \A i \in 1..Len(dispatch.sent[a]) : dispatch.sent[a][i]

\* The events of a call that made n attempts with one wait of the fixed delay
\* between consecutive attempts: attempt 1, sleep, attempt 2, ..., attempt n.
AttemptsWithDelays(events, n) ==
    /\ Len(events) = 2 * n - 1
    /\ \A j \in 1..Len(events) :
         events[j] = IF j % 2 = 1 THEN <<"attempt", (j + 1) \div 2>>
                                  ELSE <<"sleep", Delay>>

\* C9: a dispatch does not return before an attempt has succeeded or 3
\* attempts were made, and when its first k attempts failed and attempt k+1
\* succeeded, k < 3, it returns True after exactly k+1 attempts, with one
\* fixed delay between consecutive attempts.
C9_DispatchRetry ==
    dispatch.pc = "returned" =>
        LET n == Len(dispatch.sent)
        IN  /\ n >= 1
            /\ \A a \in 1..(n - 1) : ~AttemptSucceeded(a)
            /\ AttemptSucceeded(n) \/ n = Retries
            /\ AttemptSucceeded(n) =>
                 /\ n - 1 < Retries
                 /\ dispatch.result = TRUE
                 /\ AttemptsWithDelays(dispatch.events, n)

\* A dispatch to two channels failed twice and returned True from the third
\* attempt.
C9_Witness ==
    /\ dispatch.pc = "returned"
    /\ Len(dispatch.targets) = 2
    /\ Len(dispatch.sent) = 3
    /\ ~AttemptSucceeded(1)
    /\ ~AttemptSucceeded(2)
    /\ AttemptSucceeded(3)
    /\ dispatch.result = TRUE

\* C10: a dispatch for a level with no registered channel returns False
\* after a single attempt, without retry and without delay.
C10_NoChannelsNoRetry ==
    (dispatch.pc = "returned" /\ dispatch.targets = <<>>)
        => ( /\ dispatch.result = FALSE
             /\ dispatch.events = << <<"attempt", 1>> >> )

\* Every send of attempt a returned true.
AllSent(a) == \A i \in 1..Len(dispatch.sent[a]) : dispatch.sent[a][i]

\* The channels send was called on during attempt a, in the order of the calls.
CallsOf(a) ==
    LET mine == SelectSeq(dispatch.calls, LAMBDA c : c[1] = a)
    IN  [i \in 1..Len(mine) |-> mine[i][2]]

\* C11: in every attempt of a dispatch to a level with registered channels,
\* send is called once on each of them in registration order, whatever the
\* earlier sends returned, and the attempt succeeds (the call returns True
\* from it) exactly when every send returned true.
C11_AllChannelsAnd ==
    LET n == Len(dispatch.sent)
    IN  (n >= 1 /\ dispatch.targets # <<>>) =>
            /\ dispatch.pc \in {"attempt", "sleep"} =>
                   dispatch.targets = ChannelsGet(channels, dispatch.level)
            /\ \A a \in 1..n :
                   /\ CallsOf(a) = dispatch.targets
                   /\ AllSent(a) <=> (/\ a = n
                                      /\ dispatch.pc = "returned"
                                      /\ dispatch.result = TRUE)

\* After c2 then c1 were registered for a level, an attempt in which c2's send
\* failed and c1's succeeded was made, and a later attempt succeeded.
C11_Witness ==
    /\ dispatch.pc = "returned"
    /\ dispatch.result = TRUE
    /\ dispatch.targets = <<"c2", "c1">>
    /\ Len(dispatch.sent) = 2
    /\ dispatch.sent[1] = <<FALSE, TRUE>>
    /\ CallsOf(1) = <<"c2", "c1">>

\* C12: a dispatch never makes more than 3 attempts and always ends by
\* returning a boolean; when every attempt failed it returns False after
\* exactly 3 attempts.
C12_ExhaustedRetries ==
    /\ dispatch.pc \in {"idle", "attempt", "sleep", "returned"}
    /\ dispatch.result \in BOOLEAN
    /\ Len(dispatch.sent) <= Retries
    /\ dispatch.attempt <= Retries
    /\ (dispatch.pc = "returned"
        /\ \A a \in 1..Len(dispatch.sent) : ~AttemptSucceeded(a))
          => /\ Len(dispatch.sent) = Retries
             /\ dispatch.events[Len(dispatch.events) - 1] = <<"attempt", Retries>>
             /\ dispatch.result = FALSE

\* A dispatch to two channels returned False after three failed attempts.
C12_Witness ==
    /\ dispatch.pc = "returned"
    /\ Len(dispatch.targets) = 2
    /\ Len(dispatch.sent) = Retries
    /\ \A a \in 1..Retries : ~AttemptSucceeded(a)
    /\ dispatch.result = FALSE


\* How many times send was called on channel ch in the dispatch, and how
\* many times ch is registered for the level of the message.
SendCalls(ch) == Cardinality({i \in 1..Len(dispatch.calls) : dispatch.calls[i][2] = ch})
Registrations(ch) ==
    Cardinality({i \in 1..Len(dispatch.targets) : dispatch.targets[i] = ch})

\* C31: once k attempts of a dispatch have been made, send has been called
\* k times on every channel for each of its registrations for the level,
\* whatever it returned in the earlier attempts; so when the dispatch returns
\* after k attempts, a channel registered once was called k times and one
\* registered twice 2k times.
C31_FullRedispatch ==
    Len(dispatch.sent) >= 1 =>
        \A ch \in Channels :
            /\ SendCalls(ch) = Len(dispatch.sent) * Registrations(ch)
            /\ \A a \in 1..Len(dispatch.sent) :
                   Cardinality({i \in 1..Len(CallsOf(a)) : CallsOf(a)[i] = ch})
                       = Registrations(ch)

\* A dispatch to a channel registered twice returned after two attempts, the
\* first of which had one send succeed and one fail: four calls of send.
C31_Witness ==
    /\ dispatch.pc = "returned"
    /\ dispatch.targets = <<"c1", "c1">>
    /\ Len(dispatch.sent) = 2
    /\ dispatch.sent[1] = <<TRUE, FALSE>>
    /\ SendCalls("c1") = 4

\* The waits of the fixed delay made by the dispatch so far.
Sleeps == SelectSeq(dispatch.events, LAMBDA e : e[1] = "sleep")

\* C32: a dispatch to registered channels that returned after k attempts
\* waited the fixed delay exactly k-1 times, and nothing was waited for after
\* its final attempt, whether that attempt succeeded or failed.
C32_DelaysOnlyBetweenAttempts ==
    (dispatch.pc = "returned" /\ dispatch.targets # <<>>) =>
        /\ Len(Sleeps) = Len(dispatch.sent) - 1
        /\ dispatch.events[Len(dispatch.events)] = <<"attempt", Len(dispatch.sent)>>

(***************************************************************************)
(* Properties of the context store                                         *)
(***************************************************************************)

\* C3: when a task calls set_correlation_id, the value get_correlation_id
\* returns on every other running task of the same thread is the same after
\* the call as before it.
C3_TaskIsolation ==
    [][\A t1, t2 \in Cooperative :
          (/\ t1 # t2
           /\ Running(t1) /\ Running(t2) /\ thread[t1] = thread[t2]
           /\ lastOp'.op = "set_correlation_id" /\ lastOp'.task = t1)
          => get_correlation_id(t2)' = get_correlation_id(t2)]_vars

\* C4: on a thread, get_correlation_id, get_transaction_id, get_user_id and
\* get_extra_fields never return a value that is set on a different thread
\* (one it passes to a setter, or an id generated there).
C4_ThreadIsolation ==
    \A t, u \in Threads :
        (Running(t) /\ Running(u) /\ thread[t] # thread[u]) =>
            /\ get_correlation_id(t) \notin SetOn(thread[u])
            /\ get_transaction_id(t) \notin SetOn(thread[u])
            /\ get_user_id(t) \notin SetOn(thread[u])
            /\ \A k \in DOMAIN get_extra_fields(t) :
                   get_extra_fields(t)[k] \notin SetOn(thread[u])

\* Thread t2 has just set a slot, holds its own values in all four slots,
\* one of them a generated id, while thread t1 reads its own correlation id.
C4_Witness ==
    /\ Running("t2") /\ thread["t2"] = "t2"
    /\ lastOp.task = "t2"
    /\ lastOp.op \in {"set_correlation_id", "set_transaction_id",
                      "set_user_id", "set_extra_field"}
    /\ get_correlation_id("t2") \in SetOn("t2") \ {OwnValue("t2")}
    /\ get_transaction_id("t2") = OwnValue("t2")
    /\ get_user_id("t2") = OwnValue("t2")
    /\ DOMAIN get_extra_fields("t2") = ExtraKeys
    /\ get_correlation_id("t1") = OwnValue("t1")
    /\ get_transaction_id("t1") = None

\* C5: after a task leaves a LoggingContext block, get_correlation_id returns
\* on it the value it returned just before the block was entered.
C5_ScopeRestore ==
    lastOp.op = "exit" =>
        get_correlation_id(lastOp.task) = lastOp.scope.prev_correlation_id

\* C6: leaving a LoggingContext block, at any depth of nesting, puts all four
\* slots back to what they were when that block was entered: the values of
\* the enclosing block for an inner one, the values before it for the
\* outermost.
C6_NestedRestore ==
    lastOp.op = "exit" =>
        Snapshot(Store(lastOp.task)) = lastOp.scope


\* Task u runs on the thread of task t and is another task.
Sibling(t, u) == u # t /\ Running(t) /\ Running(u) /\ thread[u] = thread[t]

\* C15: when a task has set its correlation id and is then suspended, what
\* another task of its thread does next (a set, a clear, entering or leaving
\* a scope) does not change the value get_correlation_id returns on it.
C15_OwnValueSurvivesSuspension ==
    [][\A t \in Cooperative :
          (/\ lastOp.op = "set_correlation_id" /\ lastOp.task = t
           /\ Sibling(t, lastOp'.task))
          => get_correlation_id(t)' = get_correlation_id(t)]_vars

\* C16: a task spawned by a task p starts with the context values p has at
\* that moment, and no set or clear that another task of the thread makes
\* afterwards changes the value get_correlation_id returns on it.
C16_InheritedByCopy ==
    [][\A c \in Cooperative :
          /\ (lastOp'.op = "spawn_task" /\ lastOp'.task = c /\ ~Running(c)) =>
                \E p \in Cooperative :
                    /\ Running(p)
                    /\ GetCurrentContext(Store(c))' = GetCurrentContext(Store(p))
          /\ (/\ Sibling(c, lastOp'.task)
              /\ c # "t1"
              /\ lastOp'.op \in {"set_correlation_id", "clear_correlation_id"})
                => get_correlation_id(c)' = get_correlation_id(c)]_vars

\* C17: when a task enters a LoggingContext scope (as the wrapper of
\* with_logging_context does around the wrapped function), a task of the
\* same thread that is in no scope does not come to observe an id or extra
\* field the scope has set.
C17_ScopeInvisibleOutside ==
    [][\A u \in Cooperative :
          (/\ lastOp'.op = "enter"
           /\ Sibling(lastOp'.task, u)
           /\ scopes[u] = <<>>)
          => LET a == lastOp'.args
                 before == GetCurrentContext(Store(u))
                 after == GetCurrentContext(Store(u))'
             IN  /\ SetsCorrelation(a) => after.correlation_id = before.correlation_id
                 /\ Truthy(a.transaction_id) =>
                        after.transaction_id = before.transaction_id
                 /\ Truthy(a.user_id) => after.user_id = before.user_id
                 /\ a.extra_fields # EmptyMap =>
                        after.extra_fields = before.extra_fields]_vars

\* C18: when the block of a LoggingContext raises, the four slots are put
\* back to the snapshot taken at entry and the caller of the with statement
\* sees the exception.
C18_ExitOnRaise ==
    (lastOp.op = "exit" /\ lastOp.raised) =>
        /\ GetCurrentContext(Store(lastOp.task)).correlation_id
               = lastOp.scope.prev_correlation_id
        /\ GetCurrentContext(Store(lastOp.task)).transaction_id
               = lastOp.scope.prev_transaction_id
        /\ GetCurrentContext(Store(lastOp.task)).user_id = lastOp.scope.prev_user_id
        /\ GetCurrentContext(Store(lastOp.task)).extra_fields
               = lastOp.scope.prev_extra_fields
        /\ lastOp.propagated

\* C19: right after a scope is entered, the correlation id is the one given
\* to the scope when one is given; a newly generated id, different from the
\* one before, when none is given and auto_generate_correlation is true; the
\* one before when none is given and auto_generate_correlation is false.
C19_EntrySetsCorrelation ==
    lastOp.op = "enter" =>
        LET a == lastOp.args
            before == lastOp.scope.prev_correlation_id
            now == get_correlation_id(lastOp.task)
        IN  /\ a.correlation_id # None => now = a.correlation_id
            /\ (a.correlation_id = None /\ a.auto_generate_correlation) =>
                   /\ now = GenId(nextGen - 1)
                   /\ now # before
            /\ (a.correlation_id = None /\ ~a.auto_generate_correlation) =>
                   now = before

\* C20: right after a scope is entered that was given no transaction id, no
\* user id or no extra fields, the transaction id, the user id or the extra
\* fields are what they were before the entry.
C20_EntryKeepsUnprovided ==
    lastOp.op = "enter" =>
        LET a == lastOp.args
            t == lastOp.task
        IN  /\ a.transaction_id = None =>
                   get_transaction_id(t) = lastOp.scope.prev_transaction_id
            /\ a.user_id = None => get_user_id(t) = lastOp.scope.prev_user_id
            /\ a.extra_fields = EmptyMap =>
                   get_extra_fields(t) = lastOp.scope.prev_extra_fields

\* Inside a scope that set a transaction id, a user id and an extra field, a
\* nested scope given none of them has just been entered and sees them.
C20_Witness ==
    /\ lastOp.op = "enter"
    /\ Len(scopes["t1"]) = 2
    /\ lastOp.args.transaction_id = None
    /\ lastOp.args.user_id = None
    /\ lastOp.args.extra_fields = EmptyMap
    /\ get_transaction_id("t1") = "T1"
    /\ get_user_id("t1") = "U1"
    /\ "k1" \in DOMAIN get_extra_fields("t1")

\* C21: when a scope exits, normally or because its block raised,
\* get_extra_fields() is exactly the map snapshotted at entry: a key added
\* inside the scope is absent and an overwritten key has its pre-entry value.
C21_ExtraFieldsReplaced ==
    lastOp.op = "exit" =>
        /\ get_extra_fields(lastOp.task) = lastOp.scope.prev_extra_fields
        /\ \A k \in DOMAIN lastOp.inside :
               IF k \in DOMAIN lastOp.scope.prev_extra_fields
               THEN get_extra_fields(lastOp.task)[k] = lastOp.scope.prev_extra_fields[k]
               ELSE k \notin DOMAIN get_extra_fields(lastOp.task)

\* A scope exits whose block added k2 and overwrote k1.
C21_Witness ==
    /\ lastOp.op = "exit"
    /\ DOMAIN lastOp.scope.prev_extra_fields = {"k1"}
    /\ DOMAIN lastOp.inside = {"k1", "k2"}
    /\ lastOp.inside["k1"] # lastOp.scope.prev_extra_fields["k1"]
    /\ get_extra_fields(lastOp.task) = lastOp.scope.prev_extra_fields

\* The slots a call clears.
Cleared(op) ==
    CASE op = "clear_correlation_id" -> {"correlation_id"}
      [] op = "clear_transaction_id" -> {"transaction_id"}
      [] op = "clear_user_id"        -> {"user_id"}
      [] op = "clear_extra_fields"   -> {"extra_fields"}
      [] op = "clear_all_context"    -> {"correlation_id", "transaction_id",
                                         "user_id", "extra_fields"}
      [] OTHER                       -> {}

\* What the task reads from a slot.
Read(t, slot) ==
    IF slot = "extra_fields" THEN get_extra_fields(t) ELSE GetId(Store(t), slot)

\* C22: right after a clear_* call the same task reads None from the cleared
\* slot (an empty map for the extra fields), whatever the ContextVar and
\* _thread_local held; the call does not raise, and when the slot was absent
\* from both stores it changes neither of them.
C22_ClearThenGet ==
    [][\A t \in TaskIds, slot \in Cleared(lastOp'.op) :
           t = lastOp'.task =>
               /\ Read(t, slot)' = IF slot = "extra_fields" THEN EmptyMap ELSE None
               /\ ~lastOp'.raised
               /\ lastOp'.absent => ctxv' = ctxv /\ tlocal' = tlocal]_vars

\* A task clears the correlation id that its sibling set: the sibling's
\* ContextVar still holds it, _thread_local does not.
C22_Witness ==
    /\ lastOp.op = "clear_correlation_id"
    /\ ~lastOp.absent
    /\ \E u \in TaskIds : u # lastOp.task /\ ctxv[u].correlation_id = "A"
    /\ get_correlation_id(lastOp.task) = None

\* C23: set_extra_field and clear_extra_fields change no dict that is
\* visible elsewhere: the shared default {} of _extra_fields_ctx stays
\* empty, and every dict that get_extra_fields returned or that an open
\* scope keeps as its snapshot has the items it had when it was handed out.
C23_CopyThenWrite ==
    /\ heap[DefaultDict] = EmptyMap
    /\ \A x \in held : heap[x.ref] = x.was

\* A set_extra_field or clear_extra_fields call has run while a returned
\* dict and a snapshot were held whose items the stores no longer have.
C23_Witness ==
    /\ lastOp.op \in {"set_extra_field", "clear_extra_fields"}
    /\ \E x, y \in held :
           /\ x.kind = "returned" /\ y.kind = "snapshot"
           /\ heap[ctxRef[lastOp.task]] # x.was
           /\ heap[ctxRef[lastOp.task]] # y.was
           /\ tlRef # NoObj /\ heap[tlRef] # x.was /\ heap[tlRef] # y.was
    /\ heap[DefaultDict] = EmptyMap

(***************************************************************************)
(* Properties of structured logging                                        *)
(***************************************************************************)

\* The record read back from the i-th piece of the stream, a record's text.
RecordAt(i) == JsonLoads(logFile[i].text)

\* C13: every record written for an info call has a timestamp that is not
\* empty, the level "INFO", the text handed to the call as its message, and
\* a component field.
C13_RecordComplete ==
    \A i \in 1..Len(logFile) :
        logFile[i].part = "text" =>
            /\ "timestamp" \in DOMAIN RecordAt(i)
            /\ RecordAt(i)["timestamp"] \notin {None, ""}
            /\ RecordAt(i)["level"] = "INFO"
            /\ RecordAt(i)["message"] = infoCalls[logFile[i].call].message
            /\ "component" \in DOMAIN RecordAt(i)

\* The info call number n has returned.
Returned(n) == \A t \in LogThreads : logRec[t].call # n

\* C14: the stream is a sequence of complete records, the text of each
\* followed at once by its own terminator (but for a last one still being
\* written), and every info call that has returned has its record, with
\* its message, in the stream.
C14_ConcurrentLoggingComplete ==
    /\ \A i \in 1..Len(logFile) :
          /\ logFile[i].part = "text" =>
                \/ i = Len(logFile) /\ ~Returned(logFile[i].call)
                \/ /\ i < Len(logFile)
                   /\ logFile[i + 1].part = "terminator"
                   /\ logFile[i + 1].call = logFile[i].call
          /\ logFile[i].part = "terminator" =>
                /\ i > 1
                /\ logFile[i - 1].part = "text"
                /\ logFile[i - 1].call = logFile[i].call
    /\ \A n \in 1..Len(infoCalls) :
          Returned(n) =>
              \E i \in 1..Len(logFile) :
                  /\ logFile[i].part = "text"
                  /\ logFile[i].call = n
                  /\ RecordAt(i)["message"] = infoCalls[n].message
                  /\ RecordAt(i)["thread_name"] = infoCalls[n].thread

\* Thread t2 is writing its record while thread t1, whose earlier record is
\* complete in the stream, is inside another info call and waits for the
\* handler.
C14_Witness ==
    /\ handlerLock = "t2"
    /\ logPc["t2"] = "terminator"
    /\ logPc["t1"] = "handle"
    /\ Len(logFile) = 3
    /\ logFile[1].call = 1 /\ infoCalls[1].thread = "t1"
    /\ logFile[3].part = "text" /\ infoCalls[logFile[3].call].thread = "t2"

\* C24: a record written for a StructuredLogger call carries the correlation
\* id given to the call, else the one of the context at the call, and the
\* transaction id, user id and extra fields of that context when it has them.
C24_RecordReflectsContext ==
    \A i \in 1..Len(logFile) :
        logFile[i].part = "text" =>
            LET c == infoCalls[logFile[i].call]
                r == RecordAt(i)
                has(k, v) == k \in DOMAIN r /\ r[k] = v
            IN  /\ c.correlation_id # None => has("correlation_id", c.correlation_id)
                /\ c.correlation_id = None /\ c.context.correlation_id # None
                       => has("correlation_id", c.context.correlation_id)
                /\ c.context.transaction_id # None
                       => has("transaction_id", c.context.transaction_id)
                /\ c.context.user_id # None => has("user_id", c.context.user_id)
                /\ \A k \in DOMAIN c.context.extra_fields :
                       has(k, c.context.extra_fields[k])

\* C25: a record written for a call made while the correlation id of the
\* request was X, through StructuredLogger or through TransactionLogger, has
\* correlation_id X.
C25_OneCorrelationIdPerRequest ==
    \A i \in 1..Len(logFile) :
        logFile[i].part = "text" =>
            LET c == infoCalls[logFile[i].call]
            IN  c.request # None /\ c.correlation_id = None
                    => /\ "correlation_id" \in DOMAIN RecordAt(i)
                       /\ RecordAt(i)["correlation_id"] = c.request

(***************************************************************************)
(* Properties of the HTTP middlewares                                      *)
(***************************************************************************)

\* The positions, in the priority list of the middleware that handles
\* request r, of the headers to which the request gives a non-empty value.
Carriers(r) ==
    {i \in 1..Len(CorrelationHeaders(r.kind)) :
        r.headers[Lower(CorrelationHeaders(r.kind)[i])] \notin {None, ""}}

\* C33: the correlation id a middleware uses for a request is the value of
\* the first header of its priority list to which the request gives a
\* non-empty value, and when there is none an id generated for this request,
\* which no other request has; that id is the one the context of the request
\* holds once the middleware has set it and while the request is handled,
\* and the one of the X-Correlation-ID header the middleware adds to the
\* response.
C33_CorrelationExtraction ==
    \A t \in TaskIds :
        LET r == http[t]
            list == CorrelationHeaders(r.kind)
        IN  r.pc # "idle" =>
                /\ \A i \in Carriers(r) :
                       (\A j \in Carriers(r) : i <= j)
                           => r.correlation_id = r.headers[Lower(list[i])]
                /\ Carriers(r) = {} =>
                       /\ \E n \in 1..(nextGen - 1) :
                              /\ r.correlation_id = GenId(n)
                              /\ genBy[n] = thread[t]
                       /\ \A u \in TaskIds \ {t} :
                              http[u].pc # "idle" =>
                                  http[u].correlation_id # r.correlation_id
                /\ r.context = r.correlation_id
                /\ get_correlation_id(t) = r.correlation_id
                /\ r.pc = "responded" =>
                       r.response[Len(r.response)] = <<"X-Correlation-ID", r.context>>

\* The Flask middleware answered a request whose X-Correlation-ID header is
\* empty, that has no X-Request-ID header and whose X-Trace-ID header is h3
\* with the id h3, and the FastAPI middleware answered a request without
\* correlation header with a generated id.
C33_Witness ==
    /\ http["t1"].pc = "responded"
    /\ http["t1"].kind = "flask"
    /\ http["t1"].headers["x-correlation-id"] = ""
    /\ http["t1"].headers["x-request-id"] = None
    /\ http["t1"].headers["x-trace-id"] = "h3"
    /\ http["t1"].headers["request-id"] = "h5"
    /\ http["t1"].correlation_id = "h3"
    /\ InSeq(<<"X-Correlation-ID", "h3">>, http["t1"].response)
    /\ http["t2"].pc = "responded"
    /\ http["t2"].kind = "fastapi"
    /\ http["t2"].correlation_id \in {GenId(1), GenId(2)}
    /\ http["t2"].response = << <<"X-Correlation-ID", http["t2"].correlation_id>> >>

============================================================================
